---- MODULE Spec2Model ----
(***************************************************************************)
(* Qinter explanation engine: YAML pack loader, pattern matcher and the    *)
(* engine facade (lazy initialize / explain / reload / additional packs),  *)
(* modelled from src/qinter/packages/loader.py,                            *)
(* src/qinter/explanations/pattern_matcher.py, context_analyzer.py,        *)
(* template_renderer.py and engine.py.                                     *)
(*                                                                         *)
(* Conventions.  Python None / Optional values are sequences: <<>> is      *)
(* None and <<v>> is the value v.  Text is a sequence of symbols (each     *)
(* symbol a short string standing for a run of characters); a regular      *)
(* expression found in a pack is a literal symbol sequence or an           *)
(* uncompilable pattern (one that makes re.search raise re.error).         *)
(* Similarity ratios are integers in per mille.                            *)
(***************************************************************************)
EXTENDS Integers, Sequences, FiniteSets, TLC

None == <<>>
Some(v) == <<v>>

Range(s) == {s[i] : i \in 1..Len(s)}

(***************************************************************************)
(* Bounds of the model.                                                    *)
(***************************************************************************)
\* validation errors the loader may hold before clear_validation_errors
MaxErrors == 2

(***************************************************************************)
(* Rule catalog model (loader.py dataclasses).                             *)
(***************************************************************************)
RegexPattern(lit) == [kind |-> "regex", lit |-> lit]
\* a pattern re.compile rejects (re.error)
InvalidPattern == [kind |-> "invalid", lit |-> <<>>]

ContextCondition(type, threshold, min_matches, modules, functions, extensions, inside_function) ==
    [type |-> type, threshold |-> threshold, min_matches |-> min_matches,
     modules |-> modules, functions |-> functions, extensions |-> extensions,
     inside_function |-> inside_function]

CondOfType(type) == ContextCondition(type, None, None, None, None, None, None)

ExplanationConditions(exception_type, message_patterns, context_conditions) ==
    [exception_type |-> exception_type, message_patterns |-> message_patterns,
     context_conditions |-> context_conditions]

\* title_is_str: whether the YAML value of explanation.title is a string
\* a pack written without suggestions or examples has none of either
ExplanationContent(title, title_is_str) ==
    [title |-> title, title_is_str |-> title_is_str, suggestions |-> <<>>, examples |-> <<>>]

ExplanationSuggestion(template, priority, condition) ==
    [template |-> template, priority |-> priority, condition |-> condition]

ExplanationExample(id, description, code, condition) ==
    [id |-> id, description |-> description, code |-> code, condition |-> condition]

Explanation(id, priority, conditions, content) ==
    [id |-> id, priority |-> priority, conditions |-> conditions, explanation |-> content]

PackMetadata(name, version, author) == [name |-> name, version |-> version, author |-> author]

ExplanationPack(metadata, explanations, file_path) ==
    [metadata |-> metadata, explanations |-> explanations, file_path |-> file_path]

(***************************************************************************)
(* Raw YAML documents, as yaml.safe_load returns them.  A mapping is a     *)
(* record with the set of keys it holds ("fields") next to the values.     *)
(***************************************************************************)
MetadataRequired == {"name", "version", "description", "author", "license", "qinter_version", "targets"}
ExplanationRequired == {"id", "priority", "conditions", "explanation"}

RawMetadata(fields, name, version, author) ==
    [fields |-> fields, name |-> name, version |-> version, author |-> author]

RawConditions(fields, exception_type, message_patterns, context_conditions) ==
    [fields |-> fields, exception_type |-> exception_type,
     message_patterns |-> message_patterns, context_conditions |-> context_conditions]

RawContent(fields, title, title_is_str) ==
    [fields |-> fields, title |-> title, title_is_str |-> title_is_str,
     suggestions |-> <<>>, examples |-> <<>>]

RawEntry(fields, id, priority, conditions, content) ==
    [fields |-> fields, id |-> id, priority |-> priority,
     conditions |-> conditions, explanation |-> content]

\* yaml: "ok" (a mapping was parsed), "error" (yaml.YAMLError), "absent" (no such file)
RawFile(yaml, metadata, explanations) ==
    [yaml |-> yaml, metadata |-> metadata, explanations |-> explanations]

\* validation error strings: the f-string's shape, the path and the entry index it embeds
ErrorString(kind, path, index) == [kind |-> kind, path |-> path, index |-> index]

(***************************************************************************)
(* YAMLPackLoader (loader.py).                                             *)
(***************************************************************************)
parse_metadata(metadata_dict) ==
    IF MetadataRequired \subseteq metadata_dict.fields
    THEN [raised |-> FALSE,
          metadata |-> PackMetadata(metadata_dict.name, metadata_dict.version, metadata_dict.author)]
    ELSE [raised |-> TRUE, metadata |-> PackMetadata("", "", "")]

parse_conditions(conditions_dict) ==
    IF {"exception_type", "message_patterns"} \subseteq conditions_dict.fields
    THEN [raised |-> FALSE,
          conditions |-> ExplanationConditions(
              conditions_dict.exception_type,
              conditions_dict.message_patterns,
              IF "context_conditions" \in conditions_dict.fields
              THEN conditions_dict.context_conditions ELSE <<>>)]
    ELSE [raised |-> TRUE, conditions |-> ExplanationConditions("", <<>>, <<>>)]

parse_explanation_content(content_dict) ==
    IF {"title", "description"} \subseteq content_dict.fields
    THEN [raised |-> FALSE,
          content |-> [ExplanationContent(content_dict.title, content_dict.title_is_str)
                         EXCEPT !.suggestions = content_dict.suggestions,
                                !.examples = content_dict.examples]]
    ELSE [raised |-> TRUE, content |-> ExplanationContent("", TRUE)]

\* the body of _parse_explanation's try, given what the two sub-parsers returned
explanation_of(exp_dict, index, cond, cont) ==
    IF ~(ExplanationRequired \subseteq exp_dict.fields) \/ cond.raised \/ cont.raised
    THEN [explanation |-> None, errors |-> <<ErrorString("entry", "", index)>>]
    ELSE [explanation |-> Some(Explanation(exp_dict.id, exp_dict.priority,
                                           cond.conditions, cont.content)),
          errors |-> <<>>]

\* [explanation: Optional[Explanation], errors: the strings appended]
parse_explanation(exp_dict, index) ==
    explanation_of(exp_dict, index,
                   parse_conditions(exp_dict.conditions),
                   parse_explanation_content(exp_dict.explanation))

\* explanations.append(explanation) when the entry parsed, before the later entries
entries_from(one, rest) ==
    [explanations |-> one.explanation \o rest.explanations,
     errors |-> one.errors \o rest.errors]

\* the loop of _parse_and_validate over explanations_list, entries i..Len
RECURSIVE parse_entries(_, _)
parse_entries(explanations_list, i) ==
    IF i > Len(explanations_list)
    THEN [explanations |-> <<>>, errors |-> <<>>]
    ELSE entries_from(parse_explanation(explanations_list[i], i - 1),
                      parse_entries(explanations_list, i + 1))

\* a validation that records a metadata error and returns the pack all the same
validated_keeping_pack(raw_data, file_path, meta, ents) ==
    IF ents.explanations = <<>>
    THEN [pack |-> None,
          errors |-> ents.errors \o <<ErrorString("novalid", file_path, -1)>>]
    ELSE [pack |-> Some(ExplanationPack(
                          PackMetadata(raw_data.metadata.name, raw_data.metadata.version,
                                       raw_data.metadata.author),
                          ents.explanations, None)),
          errors |-> ents.errors \o
                     (IF meta.raised THEN <<ErrorString("validation", file_path, -1)>>
                      ELSE <<>>)]

parse_and_validate_keeping_pack(raw_data, file_path) ==
    validated_keeping_pack(raw_data, file_path,
                           parse_metadata(raw_data.metadata),
                           parse_entries(raw_data.explanations, 1))

\* the try block of _parse_and_validate, given the parsed metadata and entries
validated(file_path, meta, ents) ==
    IF meta.raised
    THEN [pack |-> None, errors |-> <<ErrorString("validation", file_path, -1)>>]
    ELSE IF ents.explanations = <<>>
    THEN [pack |-> None,
          errors |-> ents.errors \o <<ErrorString("novalid", file_path, -1)>>]
    ELSE [pack |-> Some(ExplanationPack(meta.metadata, ents.explanations, None)),
          errors |-> ents.errors]

\* [pack: Optional[ExplanationPack], errors]; file_path is set by load_pack
parse_and_validate(raw_data, file_path) ==
    validated(file_path, parse_metadata(raw_data.metadata),
              parse_entries(raw_data.explanations, 1))

\* self.loaded_packs[name] = pack on an insertion-ordered dict
DictSet(dict, pack) ==
    IF \E i \in 1..Len(dict) : dict[i].metadata.name = pack.metadata.name
    THEN [i \in 1..Len(dict) |->
            IF dict[i].metadata.name = pack.metadata.name THEN pack ELSE dict[i]]
    ELSE Append(dict, pack)

\* loader state: [loaded_packs, validation_errors]
\* result: [pack: Optional[ExplanationPack], loader: the loader state after the call]
WithErrors(loader, errs) ==
    [loaded_packs |-> loader.loaded_packs,
     validation_errors |-> loader.validation_errors \o errs]

\* load_pack after _parse_and_validate returned: `if pack:` and what follows
pack_loaded(loader, file_path, parsed) ==
    IF parsed.pack = None
    THEN [pack |-> None, loader |-> WithErrors(loader, parsed.errors)]
    ELSE [pack |-> Some([parsed.pack[1] EXCEPT !.file_path = Some(file_path)]),
          loader |-> [loaded_packs |->
                          DictSet(loader.loaded_packs,
                                  [parsed.pack[1] EXCEPT !.file_path = Some(file_path)]),
                      validation_errors |-> loader.validation_errors \o parsed.errors]]

load_pack(documents, loader, file_path) ==
    CASE documents[file_path].yaml = "absent" ->
            [pack |-> None,
             loader |-> WithErrors(loader, <<ErrorString("notfound", file_path, -1)>>)]
      [] documents[file_path].yaml = "error" ->
            [pack |-> None,
             loader |-> WithErrors(loader, <<ErrorString("yaml", file_path, -1)>>)]
      [] OTHER ->
            pack_loaded(loader, file_path, parse_and_validate(documents[file_path], file_path))

\* the loop of load_packs_from_directory over yaml_files, files i..Len
\* result: [packs: the packs loaded, loader]
RECURSIVE load_files(_, _, _, _)

\* packs.append(pack) when the file gave one
with_pack(pack, rest) == [packs |-> pack \o rest.packs, loader |-> rest.loader]

\* the rest of the loop after yaml_files[i] was loaded
files_from(documents, yaml_files, i, one) ==
    with_pack(one.pack, load_files(documents, one.loader, yaml_files, i + 1))

load_files(documents, loader, yaml_files, i) ==
    IF i > Len(yaml_files)
    THEN [packs |-> <<>>, loader |-> loader]
    ELSE files_from(documents, yaml_files, i, load_pack(documents, loader, yaml_files[i]))

(***************************************************************************)
(* Text helpers.                                                           *)
(***************************************************************************)
\* str.lower() on the symbols the model uses
Lower(sym) ==
    CASE sym = "OS" -> "os"
      [] sym = "Name '" -> "name '"
      [] sym = "' Is Not Defined" -> "' is not defined"
      [] OTHER -> sym

\* symbols that contain a quote character
HasQuote(sym) ==
    sym \in {"'", "name '", "Name '", "' is not defined", "' Is Not Defined",
             "' object is not callable", "' object", " '", "' and '"}

\* whether lit occurs in text starting at position i, symbol by symbol
OccursAt(lit, text, i, ignore_case) ==
    /\ i + Len(lit) - 1 <= Len(text)
    /\ \A j \in 1..Len(lit) :
          IF ignore_case THEN Lower(text[i + j - 1]) = Lower(lit[j])
          ELSE text[i + j - 1] = lit[j]

\* re.search of a literal pattern: found anywhere in text
Search(lit, text, ignore_case) ==
    \E i \in 1..(Len(text) + 1) : OccursAt(lit, text, i, ignore_case)

\* str.endswith
EndsWith(text, suffix) ==
    /\ Len(suffix) <= Len(text)
    /\ OccursAt(suffix, text, Len(text) - Len(suffix) + 1, FALSE)

\* the characters str.strip() removes
Whitespace == {" ", "\n"}

RECURSIVE LStrip(_)
LStrip(text) ==
    IF text # <<>> /\ Head(text) \in Whitespace THEN LStrip(Tail(text)) ELSE text

RECURSIVE RStrip(_)
RStrip(text) ==
    IF text # <<>> /\ text[Len(text)] \in Whitespace
    THEN RStrip(SubSeq(text, 1, Len(text) - 1))
    ELSE text

\* str.strip()
Strip(text) == RStrip(LStrip(text))

(***************************************************************************)
(* ContextAnalyzer (context_analyzer.py).                                  *)
(***************************************************************************)
common_modules ==
    {"requests", "pandas", "numpy", "matplotlib", "json", "os", "sys",
     "datetime", "math", "random", "time", "urllib", "sqlite3", "csv",
     "pickle", "itertools", "collections", "functools", "operator"}

builtin_typos ==
    [t \in {"lenght", "lentgh", "legth", "pirnt", "prnit", "prin", "strig", "strign",
            "itn", "itne", "flaot", "flot", "lsit", "listst", "dcit", "dictionairy"} |->
        CASE t \in {"lenght", "lentgh", "legth"} -> "len"
          [] t \in {"pirnt", "prnit", "prin"} -> "print"
          [] t \in {"strig", "strign"} -> "str"
          [] t \in {"itn", "itne"} -> "int"
          [] t \in {"flaot", "flot"} -> "float"
          [] t \in {"lsit", "listst"} -> "list"
          [] OTHER -> "dict"]

\* local variable names the model's contexts use, in sorted() order, with the
\* two facts _get_available_variables reads off a name
LocalNames ==
    <<"_tmp", "count", "i", "ls", "lst1", "lst2", "lst3", "lst4", "lst5", "lst6", "other">>
Numbered == {"lst1", "lst2", "lst3", "lst4", "lst5", "lst6"}
StartsWithUnderscore(name) == name = "_tmp"
NameLength(name) ==
    CASE name = "i" -> 1 [] name = "ls" -> 2 [] name \in {"_tmp"} \cup Numbered -> 4 [] OTHER -> 5

\* SequenceMatcher(None, a, b).ratio() in per mille, for the names of the model
Ratio(a, b) ==
    CASE a = "pirnt" /\ b = "count" -> 400
      [] a = "pirnt" /\ b = "i"     -> 333
      [] a = "pirnt" /\ b \in {"_tmp"} \cup Numbered -> 222
      [] a = "pirnt" /\ b = "other" -> 200
      [] a = "lst" /\ b \in Numbered -> 857
      [] a = "lst" /\ b = "ls"      -> 800
      [] a = "lst" /\ b = "_tmp"    -> 285
      [] a = "lst" /\ b \in {"count", "other"} -> 250
      [] a = "os" /\ b = "ls"       -> 500
      [] a = "os" /\ b \in Numbered -> 333
      [] a = "os" /\ b \in {"count", "other"} -> 285
      [] a = "unknown" /\ b = "count" -> 333
      [] a = "unknown" /\ b = "other" -> 166
      [] a = "variable_of_type_int" /\ b = "_tmp"  -> 250
      [] a = "variable_of_type_int" /\ b = "count" -> 240
      [] a = "variable_of_type_int" /\ b \in Numbered -> 166
      [] a = "variable_of_type_int" /\ b = "i"     -> 95
      [] a = "variable_of_type_int" /\ b = "ls"    -> 90
      [] a = "variable_of_type_int" /\ b = "other" -> 80
      [] OTHER -> 0

CloseMatchesN == 5
CloseMatchesCutoff == 400

extract_variable_name(exception) ==
    LET message == exception.message
        NameAt(i) == /\ i + 2 <= Len(message)
                     /\ message[i] = "name '"
                     /\ ~HasQuote(message[i + 1])
                     /\ message[i + 2] = "' is not defined"
        CallAt(i) == /\ i + 2 <= Len(message)
                     /\ message[i] = "'"
                     /\ ~HasQuote(message[i + 1])
                     /\ message[i + 2] = "' object is not callable"
        First(P(_)) == CHOOSE i \in 1..Len(message) : P(i) /\ \A k \in 1..(i - 1) : ~P(k)
    IN  IF \E i \in 1..Len(message) : NameAt(i)
        THEN message[First(NameAt) + 1]
        ELSE IF \E i \in 1..Len(message) : CallAt(i)
        THEN "variable_of_type_" \o message[First(CallAt) + 1]
        ELSE "unknown"

\* symbols that are runs of digits (`\d+`), with int() of them
Digits == [sym \in {"2", "3", "10"} |-> CASE sym = "2" -> 2 [] sym = "3" -> 3 [] OTHER -> 10]

\* `unsupported operand type\(s\) for (.+):` matches from index i with its
\* ":" at index k ("." matches no newline)
OperationAt(message, i, k) ==
    /\ message[i] = "unsupported operand type(s) for "
    /\ i + 1 < k
    /\ k <= Len(message)
    /\ message[k] = ":"
    /\ \A m \in (i + 1)..(k - 1) : message[m] # "\n"

\* the leftmost index a pattern matches from, and the last index a greedy
\* group can end before
Leftmost(indices) == CHOOSE i \in indices : \A m \in indices : i <= m
Greediest(indices) == CHOOSE k \in indices : \A m \in indices : k >= m

\* group(1).strip() of a match from i with the ":" at k
OperationGroup(message, i, k) == Strip(SubSeq(message, i + 1, k - 1))

extract_operation(exception) ==
    LET message == exception.message
        starts == {i \in 1..Len(message) : \E k \in 1..Len(message) : OperationAt(message, i, k)}
    IN  IF starts = {}
        THEN <<"operation">>
        ELSE OperationGroup(message, Leftmost(starts),
                            Greediest({k \in 1..Len(message) :
                                         OperationAt(message, Leftmost(starts), k)}))

\* `invalid literal for int\(\) with base \d+: '([^']*)'` matches from index i
BadValueAt(message, i) ==
    /\ i + 4 <= Len(message)
    /\ message[i] = "invalid literal for int() with base "
    /\ message[i + 1] \in DOMAIN Digits
    /\ message[i + 2] = ":"
    /\ message[i + 3] = " '"
    /\ \/ message[i + 4] = "'"
       \/ /\ i + 5 <= Len(message)
          /\ ~HasQuote(message[i + 4])
          /\ message[i + 5] = "'"

extract_bad_value(exception) ==
    LET message == exception.message
        starts == {i \in 1..Len(message) : BadValueAt(message, i)}
    IN  IF starts = {}
        THEN <<"value">>
        ELSE IF message[Leftmost(starts) + 4] = "'"
        THEN <<>>
        ELSE <<message[Leftmost(starts) + 4]>>

\* sorted(name for name in local_vars.keys() if ...)
get_available_variables(context) ==
    SelectSeq(LocalNames,
              LAMBDA name : /\ name \in Range(context.local_variables)
                            /\ ~StartsWithUnderscore(name)
                            /\ NameLength(name) > 1)

\* position of a name in sorted() order
NameRank(name) == CHOOSE i \in 1..Len(LocalNames) : LocalNames[i] = name

\* difflib.get_close_matches: the n best candidates scoring at least cutoff,
\* best first; equal scores in descending string order (heapq.nlargest on
\* (score, candidate) pairs)
RECURSIVE BestFirst(_, _, _)
BestFirst(word, candidates, n) ==
    IF n = 0 \/ candidates = {}
    THEN <<>>
    ELSE LET best == CHOOSE c \in candidates : \A d \in candidates :
                        \/ Ratio(word, c) > Ratio(word, d)
                        \/ Ratio(word, c) = Ratio(word, d) /\ NameRank(c) >= NameRank(d)
         IN  <<best>> \o BestFirst(word, candidates \ {best}, n - 1)

\* a ranking that returns every candidate at or above the cutoff, however many
get_close_matches_unbounded(word, possibilities, n, cutoff) ==
    BestFirst(word, {c \in Range(possibilities) : Ratio(word, c) >= cutoff},
              Len(possibilities))

get_close_matches(word, possibilities, n, cutoff) ==
    BestFirst(word, {c \in Range(possibilities) : Ratio(word, c) >= cutoff}, n)

\* the FactSet before the specific analyses run
BaseAnalysis(exception, context) ==
    [variable_name |-> extract_variable_name(exception),
     exception_type |-> exception.type,
     exception_message |-> exception.message,
     filename |-> IF "filename" \in context.file_context.fields
                  THEN context.file_context.filename ELSE <<"interactive">>,
     function_name |-> IF context.traceback_info # <<>>
                       THEN context.traceback_info[Len(context.traceback_info)].function_name
                       ELSE "module",
     available_variables |-> get_available_variables(context),
     similar_variables |-> <<>>,
     closest_variable |-> None,
     similarity_score |-> 0,
     looks_like_import |-> FALSE,
     builtin_typo_detected |-> FALSE,
     correct_builtin |-> None,
     similar_variables_exist |-> FALSE,
     operation |-> extract_operation(exception),
     type1 |-> None,
     type2 |-> None,
     expected |-> None,
     actual |-> None,
     bad_value |-> extract_bad_value(exception)]

\* _analyze_variable_similarity after get_close_matches returned
with_similar(analysis, similar) ==
    IF similar = <<>>
    THEN [analysis EXCEPT !.similar_variables = similar]
    ELSE [analysis EXCEPT !.similar_variables = similar,
                          !.closest_variable = Some(similar[1]),
                          !.similar_variables_exist = TRUE,
                          !.similarity_score = Ratio(analysis.variable_name, similar[1])]

analyze_variable_similarity(analysis) ==
    IF analysis.variable_name = "" \/ analysis.available_variables = <<>>
    THEN analysis
    ELSE with_similar(analysis,
                      get_close_matches(analysis.variable_name, analysis.available_variables,
                                        CloseMatchesN, CloseMatchesCutoff))

analyze_import_patterns(analysis) ==
    IF Lower(analysis.variable_name) \in common_modules
    THEN [analysis EXCEPT !.looks_like_import = TRUE]
    ELSE analysis

analyze_builtin_typos(analysis) ==
    IF Lower(analysis.variable_name) \in DOMAIN builtin_typos
    THEN [analysis EXCEPT !.builtin_typo_detected = TRUE,
                          !.correct_builtin = Some(builtin_typos[Lower(analysis.variable_name)])]
    ELSE analysis

\* `unsupported operand type\(s\) for (.+): '([^']+)' and '([^']+)'` matches
\* from index i with the ":" of its first group at index k
OperandTypesAt(message, i, k) ==
    /\ OperationAt(message, i, k)
    /\ k + 5 <= Len(message)
    /\ message[k + 1] = " '"
    /\ ~HasQuote(message[k + 2])
    /\ message[k + 3] = "' and '"
    /\ ~HasQuote(message[k + 4])
    /\ message[k + 5] \in {"'", "' object", "' object is not callable", "' is not defined"}

\* the body of _analyze_type_errors after `if match:`, the match from i to k
with_operand_types(analysis, message, i, k) ==
    [analysis EXCEPT !.operation = OperationGroup(message, i, k),
                     !.type1 = Some(message[k + 2]),
                     !.type2 = Some(message[k + 4])]

analyze_type_errors(analysis, exception) ==
    LET message == exception.message
        starts == {i \in 1..Len(message) :
                     \E k \in 1..Len(message) : OperandTypesAt(message, i, k)}
    IN  IF exception.type # "TypeError" \/ starts = {}
        THEN analysis
        ELSE with_operand_types(analysis, message, Leftmost(starts),
                                Greediest({k \in 1..Len(message) :
                                             OperandTypesAt(message, Leftmost(starts), k)}))

\* `not enough values to unpack \(expected (\d+), got (\d+)\)` matches from i
NotEnoughAt(message, i) ==
    /\ i + 4 <= Len(message)
    /\ message[i] = "not enough values to unpack (expected "
    /\ message[i + 1] \in DOMAIN Digits
    /\ message[i + 2] = ", got "
    /\ message[i + 3] \in DOMAIN Digits
    /\ message[i + 4] = ")"

\* `too many values to unpack \(expected (\d+)\)` matches from i
TooManyAt(message, i) ==
    /\ i + 2 <= Len(message)
    /\ message[i] = "too many values to unpack (expected "
    /\ message[i + 1] \in DOMAIN Digits
    /\ message[i + 2] = ")"

\* the first search of _analyze_value_errors
with_not_enough(analysis, message) ==
    LET starts == {i \in 1..Len(message) : NotEnoughAt(message, i)}
    IN  IF starts = {}
        THEN analysis
        ELSE [analysis EXCEPT !.expected = Some(Digits[message[Leftmost(starts) + 1]]),
                              !.actual = Some(Digits[message[Leftmost(starts) + 3]])]

\* the second search of _analyze_value_errors
with_too_many(analysis, message) ==
    LET starts == {i \in 1..Len(message) : TooManyAt(message, i)}
    IN  IF starts = {}
        THEN analysis
        ELSE [analysis EXCEPT !.expected = Some(Digits[message[Leftmost(starts) + 1]])]

analyze_value_errors(analysis, exception) ==
    IF exception.type # "ValueError"
    THEN analysis
    ELSE with_too_many(with_not_enough(analysis, exception.message), exception.message)

\* [raised, analysis]: context.get('file_context', {}).get(...) raises
\* AttributeError when the caller's file_context is not a mapping
analyze(exception, context) ==
    IF ~context.file_context.is_dict
    THEN [raised |-> TRUE, analysis |-> BaseAnalysis(exception, [context EXCEPT !.file_context.fields = {}])]
    ELSE [raised |-> FALSE,
          analysis |-> analyze_value_errors(
                           analyze_type_errors(
                               analyze_builtin_typos(analyze_import_patterns(
                                   analyze_variable_similarity(BaseAnalysis(exception, context)))),
                               exception),
                           exception)]

DefaultThreshold == 600
DefaultMinMatches == 1

\* Python's `x or default` on an Optional number
OrDefault(opt, default) == IF opt = None \/ opt = Some(0) THEN default ELSE opt[1]

check_condition(condition, analysis) ==
    CASE condition.type = "variable_similarity" ->
            /\ analysis.similarity_score >= OrDefault(condition.threshold, DefaultThreshold)
            /\ Len(analysis.similar_variables) >= OrDefault(condition.min_matches, DefaultMinMatches)
      [] condition.type = "import_pattern" ->
            IF condition.modules = None \/ condition.modules = Some(<<>>)
            THEN analysis.looks_like_import
            ELSE /\ analysis.looks_like_import
                 /\ analysis.variable_name \in Range(condition.modules[1])
      [] condition.type = "builtin_typo" ->
            IF condition.functions = None \/ condition.functions = Some(<<>>)
            THEN analysis.builtin_typo_detected
            ELSE /\ analysis.builtin_typo_detected
                 /\ analysis.correct_builtin # None
                 /\ analysis.correct_builtin[1] \in Range(condition.functions[1])
      [] condition.type = "file_extension" ->
            IF condition.extensions = None \/ condition.extensions = Some(<<>>)
            THEN TRUE
            ELSE \E k \in 1..Len(condition.extensions[1]) :
                    EndsWith(analysis.filename, condition.extensions[1][k])
      [] condition.type = "function_context" ->
            Some(analysis.function_name # "module") = condition.inside_function
      [] OTHER -> TRUE

(***************************************************************************)
(* PatternMatcher (pattern_matcher.py).  loaded_explanations is a list of  *)
(* (explanation, pack) tuples.                                             *)
(***************************************************************************)
\* for pack in packs: for explanation in pack.explanations: append((explanation, pack))
RECURSIVE PairsOfPack(_, _)
PairsOfPack(pack, i) ==
    IF i > Len(pack.explanations)
    THEN <<>>
    ELSE <<<<pack.explanations[i], pack>>>> \o PairsOfPack(pack, i + 1)

RECURSIVE PairsOfPacks(_, _)
PairsOfPacks(packs, i) ==
    IF i > Len(packs)
    THEN <<>>
    ELSE PairsOfPack(packs[i], 1) \o PairsOfPacks(packs, i + 1)

\* one step of a stable descending sort: x goes behind every element whose
\* priority is at least its own
InsertByPriority(sorted, x) ==
    LET k == Cardinality({i \in 1..Len(sorted) : sorted[i][1].priority >= x[1].priority})
    IN  SubSeq(sorted, 1, k) \o <<x>> \o SubSeq(sorted, k + 1, Len(sorted))

\* list.sort(key=lambda x: x[0].priority, reverse=True): stable, highest first
RECURSIVE SortByPriority(_, _)
SortByPriority(pairs, n) ==
    IF n = 0 THEN <<>> ELSE InsertByPriority(SortByPriority(pairs, n - 1), pairs[n])

\* a load that keeps what was loaded before (the clear() left out)
load_explanations_keeping(current, packs) ==
    LET pairs == current \o PairsOfPacks(packs, 1) IN SortByPriority(pairs, Len(pairs))

\* a load that sorts lowest priority first (reverse=True left out)
load_explanations_ascending(current, packs) ==
    LET pairs == PairsOfPacks(packs, 1)
        sorted == SortByPriority(pairs, Len(pairs))
    IN  [i \in 1..Len(sorted) |-> sorted[Len(sorted) + 1 - i]]

\* current: self.loaded_explanations before the call (cleared first)
load_explanations(current, packs) ==
    LET pairs == PairsOfPacks(packs, 1) IN SortByPriority(pairs, Len(pairs))

\* a loop that gives up at the first uncompilable pattern (re.error not caught)
RECURSIVE matches_message_patterns_aborting(_, _, _)
matches_message_patterns_aborting(patterns, message, i) ==
    IF i > Len(patterns) \/ patterns[i].kind # "regex"
    THEN FALSE
    ELSE IF Search(patterns[i].lit, message, TRUE)
    THEN TRUE
    ELSE matches_message_patterns_aborting(patterns, message, i + 1)

\* the loop of _matches_message_patterns from pattern i on; an uncompilable
\* pattern raises re.error inside the try and is skipped
RECURSIVE matches_message_patterns(_, _, _)
matches_message_patterns(patterns, message, i) ==
    IF i > Len(patterns)
    THEN FALSE
    ELSE IF patterns[i].kind = "regex" /\ Search(patterns[i].lit, message, TRUE)
    THEN TRUE
    ELSE matches_message_patterns(patterns, message, i + 1)

\* a loop that accepts the list as soon as one predicate is satisfied
RECURSIVE matches_context_conditions_any(_, _, _)
matches_context_conditions_any(conditions, analysis, i) ==
    IF i > Len(conditions)
    THEN FALSE
    ELSE IF check_condition(conditions[i], analysis)
    THEN TRUE
    ELSE matches_context_conditions_any(conditions, analysis, i + 1)

RECURSIVE matches_context_conditions(_, _, _)
matches_context_conditions(conditions, analysis, i) ==
    IF i > Len(conditions)
    THEN TRUE
    ELSE IF ~check_condition(conditions[i], analysis)
    THEN FALSE
    ELSE matches_context_conditions(conditions, analysis, i + 1)

\* _matches_explanation with the exception-type comparison left out
matches_explanation_any_type(explanation, exception_type, exception_message, analysis) ==
    LET conditions == explanation.conditions
    IN  IF ~matches_message_patterns(conditions.message_patterns, exception_message, 1)
        THEN FALSE
        ELSE IF conditions.context_conditions # <<>>
                /\ ~matches_context_conditions(conditions.context_conditions, analysis, 1)
        THEN FALSE
        ELSE TRUE

matches_explanation(explanation, exception_type, exception_message, analysis) ==
    LET conditions == explanation.conditions
    IN  IF conditions.exception_type # exception_type
        THEN FALSE
        ELSE IF ~matches_message_patterns(conditions.message_patterns, exception_message, 1)
        THEN FALSE
        ELSE IF conditions.context_conditions # <<>>
                /\ ~matches_context_conditions(conditions.context_conditions, analysis, 1)
        THEN FALSE
        ELSE TRUE

\* the for loop of find_best_explanation from entry i on: Optional[(explanation, pack, analysis)]
RECURSIVE FirstMatch(_, _, _, _)
FirstMatch(loaded, exception, analysis, i) ==
    IF i > Len(loaded)
    THEN None
    ELSE IF matches_explanation(loaded[i][1], exception.type, exception.message, analysis)
    THEN Some(<<loaded[i][1], loaded[i][2], analysis>>)
    ELSE FirstMatch(loaded, exception, analysis, i + 1)

\* the for loop of find_all_matching_explanations from entry i on
RECURSIVE AllMatches(_, _, _, _)
AllMatches(loaded, exception, analysis, i) ==
    IF i > Len(loaded)
    THEN <<>>
    ELSE (IF matches_explanation(loaded[i][1], exception.type, exception.message, analysis)
          THEN <<<<loaded[i][1], loaded[i][2], analysis>>>>
          ELSE <<>>)
         \o AllMatches(loaded, exception, analysis, i + 1)

\* find_best_explanation that keeps the last match instead of returning the first
LastOf(all) == IF all = <<>> THEN None ELSE Some(all[Len(all)])

find_best_explanation_last(loaded, exception, context) ==
    IF analyze(exception, context).raised
    THEN [raised |-> TRUE, result |-> None]
    ELSE [raised |-> FALSE,
          result |-> LastOf(AllMatches(loaded, exception,
                                       analyze(exception, context).analysis, 1))]

\* [raised, result]
find_best_explanation(loaded, exception, context) ==
    IF analyze(exception, context).raised
    THEN [raised |-> TRUE, result |-> None]
    ELSE [raised |-> FALSE,
          result |-> FirstMatch(loaded, exception, analyze(exception, context).analysis, 1)]

\* [raised, matches]
find_all_matching_explanations(loaded, exception, context) ==
    IF analyze(exception, context).raised
    THEN [raised |-> TRUE, matches |-> <<>>]
    ELSE [raised |-> FALSE,
          matches |-> AllMatches(loaded, exception, analyze(exception, context).analysis, 1)]

(***************************************************************************)
(* TemplateRenderer (template_renderer.py).  A template, like every text,  *)
(* is a sequence of symbols: the characters "{", "}", ":" and ">", the     *)
(* whitespace characters, and words that hold none of these.  The FactSet  *)
(* is a function from names to values tagged with their Python type.       *)
(***************************************************************************)
\* str.find / the leftmost place a literal matches: the first index at or
\* after from where pat occurs in text, 0 when there is none
Find(pat, text, from) ==
    IF \E k \in from..Len(text) : OccursAt(pat, text, k, FALSE)
    THEN CHOOSE k \in from..Len(text) :
            /\ OccursAt(pat, text, k, FALSE)
            /\ \A m \in from..(k - 1) : ~OccursAt(pat, text, m, FALSE)
    ELSE 0

\* FactSet values
BoolValue(b) == [type |-> "bool", bool |-> b, num |-> 0, text |-> <<>>, len |-> 0]
StrValue(text) == [type |-> "str", bool |-> FALSE, num |-> 0, text |-> text, len |-> Len(text)]
NumValue(type, permille) ==
    [type |-> type, bool |-> FALSE, num |-> permille, text |-> <<>>, len |-> 0]
ListValue(items) ==
    [type |-> "list", bool |-> FALSE, num |-> 0, text |-> items, len |-> Len(items)]
NoneValue == [type |-> "NoneType", bool |-> FALSE, num |-> 0, text |-> <<>>, len |-> 0]

\* numeric literals of the model's templates, in per mille
NumberLiterals ==
    [lit \in {"-1", "0", "0.5", "0.8", "1", "4.2"} |->
        CASE lit = "-1" -> -1000
          [] lit = "0" -> 0
          [] lit = "0.5" -> 500
          [] lit = "0.8" -> 800
          [] lit = "4.2" -> 4200
          [] OTHER -> 1000]

\* float(text): [raised (ValueError), num]
FloatOfText(text) ==
    IF Len(Strip(text)) = 1 /\ Strip(text)[1] \in DOMAIN NumberLiterals
    THEN [raised |-> FALSE, num |-> NumberLiterals[Strip(text)[1]]]
    ELSE [raised |-> TRUE, num |-> 0]

\* float(value): [raised (ValueError or TypeError), num]
FloatOf(value) ==
    CASE value.type = "bool" -> [raised |-> FALSE, num |-> IF value.bool THEN 1000 ELSE 0]
      [] value.type \in {"int", "float"} -> [raised |-> FALSE, num |-> value.num]
      [] value.type = "str" -> FloatOfText(value.text)
      [] OTHER -> [raised |-> TRUE, num |-> 0]

\* str(value); the digits of a number and the items of a list stay symbolic
StrOf(value) ==
    CASE value.type = "bool" -> <<IF value.bool THEN "True" ELSE "False">>
      [] value.type = "str" -> value.text
      [] value.type \in {"int", "float"} -> <<"num", ToString(value.num)>>
      [] value.type = "list" -> <<"[">> \o value.text \o <<"]">>
      [] OTHER -> <<"None">>

\* analysis.get(key, default) for a key given as text
FactOr(facts, key, default) ==
    IF Len(key) = 1 /\ key[1] \in DOMAIN facts THEN facts[key[1]] ELSE default

\* the `' > ' in condition` branch, the operator found at index k
compare_greater(condition, facts, k) ==
    /\ ~FloatOfText(SubSeq(condition, k + 3, Len(condition))).raised
    /\ ~FloatOf(FactOr(facts, Strip(SubSeq(condition, 1, k - 1)), NumValue("int", 0))).raised
    /\ FloatOf(FactOr(facts, Strip(SubSeq(condition, 1, k - 1)), NumValue("int", 0))).num
         > FloatOfText(SubSeq(condition, k + 3, Len(condition))).num

\* the `if condition in analysis:` branch; "falls" when no isinstance test applies
direct_check(value) ==
    CASE value.type = "bool" -> [falls |-> FALSE, truth |-> value.bool]
      [] value.type \in {"list", "str"} -> [falls |-> FALSE, truth |-> value.len > 0]
      [] value.type \in {"int", "float"} -> [falls |-> FALSE, truth |-> value.num > 0]
      [] OTHER -> [falls |-> TRUE, truth |-> FALSE]

evaluate_condition(condition, facts) ==
    IF /\ Len(condition) = 1
       /\ condition[1] \in DOMAIN facts
       /\ ~direct_check(facts[condition[1]]).falls
    THEN direct_check(facts[condition[1]]).truth
    ELSE IF Find(<<" ", ">", " ">>, condition, 1) # 0
    THEN compare_greater(condition, facts, Find(<<" ", ">", " ">>, condition, 1))
    ELSE FALSE

should_include_item(condition, facts) ==
    IF condition = <<"always">> THEN TRUE ELSE evaluate_condition(condition, facts)

\* `\{if\s+([^}]+)\}` at index i: the index of the "}" that ends the opening
\* tag, 0 when the pattern does not match there
IfClose(text, i) ==
    IF /\ i + 3 <= Len(text)
       /\ text[i] = "{"
       /\ text[i + 1] = "if"
       /\ text[i + 2] \in Whitespace
       /\ Find(<<"}">>, text, i + 3) >= i + 4
    THEN Find(<<"}">>, text, i + 3)
    ELSE 0

\* group(1).strip() of an opening tag that starts at i and ends at j
IfCondition(text, i, j) == Strip(SubSeq(text, i + 2, j - 1))

\* the lazy `(.*?)\{else\}` after an opening tag that ends at j
ElseAfter(text, j) == IF j = 0 THEN 0 ELSE Find(<<"{", "else", "}">>, text, j + 1)

\* the lazy `(.*?)\{endif\}` from index from
EndifAfter(text, from) == IF from = 0 THEN 0 ELSE Find(<<"{", "endif", "}">>, text, from)

\* if_else_pattern at i: the index of its `{endif}`, 0 when it does not match
IfElseEnd(text, i) ==
    IF ElseAfter(text, IfClose(text, i)) = 0
    THEN 0
    ELSE EndifAfter(text, ElseAfter(text, IfClose(text, i)) + 3)

\* the branches taken the other way round
replace_if_else_swapped(text, facts, i, j, e, d) ==
    IF evaluate_condition(IfCondition(text, i, j), facts)
    THEN SubSeq(text, e + 3, d - 1)
    ELSE SubSeq(text, j + 1, e - 1)

\* replace_if_else for a match that opens at i..j, with `{else}` at e and
\* `{endif}` at d
replace_if_else(text, facts, i, j, e, d) ==
    IF evaluate_condition(IfCondition(text, i, j), facts)
    THEN SubSeq(text, j + 1, e - 1)
    ELSE SubSeq(text, e + 3, d - 1)

\* re.sub(if_else_pattern, replace_if_else, template, flags=re.DOTALL) from i
RECURSIVE sub_if_else(_, _, _)
sub_if_else(text, facts, i) ==
    IF i > Len(text) THEN <<>>
    ELSE IF IfElseEnd(text, i) # 0
    THEN replace_if_else(text, facts, i, IfClose(text, i),
                         ElseAfter(text, IfClose(text, i)), IfElseEnd(text, i))
            \o sub_if_else(text, facts, IfElseEnd(text, i) + 3)
    ELSE <<text[i]>> \o sub_if_else(text, facts, i + 1)

\* if_pattern at i: the index of its `{endif}`, 0 when it does not match
IfEnd(text, i) ==
    IF IfClose(text, i) = 0 THEN 0 ELSE EndifAfter(text, IfClose(text, i) + 1)

\* replace_if for a match that opens at i..j, with `{endif}` at d
replace_if(text, facts, i, j, d) ==
    IF evaluate_condition(IfCondition(text, i, j), facts)
    THEN SubSeq(text, j + 1, d - 1)
    ELSE <<>>

\* re.sub(if_pattern, replace_if, template, flags=re.DOTALL) from i
RECURSIVE sub_if(_, _, _)
sub_if(text, facts, i) ==
    IF i > Len(text) THEN <<>>
    ELSE IF IfEnd(text, i) # 0
    THEN replace_if(text, facts, i, IfClose(text, i), IfEnd(text, i))
            \o sub_if(text, facts, IfEnd(text, i) + 3)
    ELSE <<text[i]>> \o sub_if(text, facts, i + 1)

handle_conditional_blocks(template, facts) ==
    sub_if(sub_if_else(template, facts, 1), facts, 1)

\* the text format() gives for a number: its digits stay symbolic
Formatted(permille, format_spec) == <<"num", ToString(permille), format_spec>>

\* int(format_spec[1:-1]) succeeds
FixedSpecs == {".0f", ".1f", ".2f"}

\* the body of `if ':' in var_name:`, the colon found at index k
format_variable(var_name, facts, k, value) ==
    IF /\ k = Len(var_name) - 1
       /\ var_name[Len(var_name)] \in FixedSpecs \cup {".0%"}
       /\ ~FloatOf(value).raised
    THEN Formatted(FloatOf(value).num, var_name[Len(var_name)])
    ELSE StrOf(value)

\* a missing name that leaves nothing behind
UnknownVariableDropped(name) == StrValue(<<>>)

\* the default of analysis.get in replace_var
UnknownVariable(name) == StrValue(<<"{", "unknown_variable_">> \o name \o <<"}">>)

\* replace_var for the text between the braces
replace_var(var_name, facts) ==
    IF Find(<<":">>, var_name, 1) # 0
    THEN format_variable(var_name, facts, Find(<<":">>, var_name, 1),
            FactOr(facts, SubSeq(var_name, 1, Find(<<":">>, var_name, 1) - 1),
                   UnknownVariable(SubSeq(var_name, 1, Find(<<":">>, var_name, 1) - 1))))
    ELSE StrOf(FactOr(facts, var_name, UnknownVariable(var_name)))

\* `\{([^}]+)\}` at index i: the index of its "}", 0 when it does not match
VarClose(text, i) ==
    IF text[i] = "{" /\ Find(<<"}">>, text, i + 1) >= i + 2
    THEN Find(<<"}">>, text, i + 1)
    ELSE 0

\* re.sub(r'\{([^}]+)\}', replace_var, template) from i
RECURSIVE sub_vars(_, _, _)
sub_vars(text, facts, i) ==
    IF i > Len(text) THEN <<>>
    ELSE IF VarClose(text, i) # 0
    THEN replace_var(SubSeq(text, i + 1, VarClose(text, i) - 1), facts)
            \o sub_vars(text, facts, VarClose(text, i) + 1)
    ELSE <<text[i]>> \o sub_vars(text, facts, i + 1)

substitute_variables(template, facts) == sub_vars(template, facts, 1)

\* the rendering without the final strip()
render_template_untrimmed(template, facts) ==
    IF template = <<>>
    THEN <<>>
    ELSE substitute_variables(handle_conditional_blocks(template, facts), facts)

render_template(template, facts) ==
    IF template = <<>>
    THEN <<>>
    ELSE Strip(substitute_variables(handle_conditional_blocks(template, facts), facts))

\* list.sort(key=lambda x: x[0].priority) is stable: an item goes after
\* every item of a priority no higher than its own
RECURSIVE InsertBySuggestionPriority(_, _)
InsertBySuggestionPriority(item, sorted) ==
    IF sorted = <<>> THEN <<item>>
    ELSE IF Head(sorted).priority <= item.priority
    THEN <<Head(sorted)>> \o InsertBySuggestionPriority(item, Tail(sorted))
    ELSE <<item>> \o sorted

RECURSIVE SortBySuggestionPriority(_)
SortBySuggestionPriority(items) ==
    IF items = <<>> THEN <<>>
    ELSE InsertBySuggestionPriority(items[Len(items)],
                                    SortBySuggestionPriority(SubSeq(items, 1, Len(items) - 1)))

\* [text for _, text in suggestions_with_priority if text]
RECURSIVE rendered_texts(_, _)
rendered_texts(suggestions, facts) ==
    IF suggestions = <<>> THEN <<>>
    ELSE IF render_template(Head(suggestions).template, facts) = <<>>
    THEN rendered_texts(Tail(suggestions), facts)
    ELSE <<render_template(Head(suggestions).template, facts)>>
            \o rendered_texts(Tail(suggestions), facts)

\* the suggestions left in the order the pack lists them
render_suggestions_catalog_order(suggestions, facts) ==
    rendered_texts(
        SelectSeq(suggestions, LAMBDA sugg : should_include_item(sugg.condition, facts)),
        facts)

render_suggestions(suggestions, facts) ==
    rendered_texts(
        SortBySuggestionPriority(
            SelectSeq(suggestions, LAMBDA sugg : should_include_item(sugg.condition, facts))),
        facts)

rendered_example(example, facts) ==
    [description |-> render_template(example.description, facts),
     code |-> render_template(example.code, facts),
     id |-> example.id]

\* examples kept on their description alone
RECURSIVE render_examples_described(_, _)
render_examples_described(examples, facts) ==
    IF examples = <<>> THEN <<>>
    ELSE IF /\ should_include_item(Head(examples).condition, facts)
            /\ render_template(Head(examples).description, facts) # <<>>
    THEN <<rendered_example(Head(examples), facts)>>
            \o render_examples_described(Tail(examples), facts)
    ELSE render_examples_described(Tail(examples), facts)

RECURSIVE render_examples(_, _)
render_examples(examples, facts) ==
    IF examples = <<>> THEN <<>>
    ELSE IF /\ should_include_item(Head(examples).condition, facts)
            /\ render_template(Head(examples).description, facts) # <<>>
            /\ render_template(Head(examples).code, facts) # <<>>
    THEN <<rendered_example(Head(examples), facts)>> \o render_examples(Tail(examples), facts)
    ELSE render_examples(Tail(examples), facts)

\* an Optional[str] of the analysis as a FactSet value
OptionalStr(opt) == IF opt = None THEN NoneValue ELSE StrValue(<<opt[1]>>)

\* an Optional[int] of the analysis as a FactSet value
OptionalInt(opt) == IF opt = None THEN NoneValue ELSE NumValue("int", 1000 * opt[1])

\* a str of the analysis as a FactSet value
WordValue(word) == IF word = "" THEN StrValue(<<>>) ELSE StrValue(<<word>>)

\* the analysis dict ContextAnalyzer.analyze returns, as the FactSet the
\* renderer reads
FactsOf(analysis) ==
    [name \in {"variable_name", "exception_type", "exception_message", "filename",
               "function_name", "available_variables", "similar_variables",
               "closest_variable", "similarity_score", "looks_like_import",
               "builtin_typo_detected", "correct_builtin", "similar_variables_exist",
               "operation", "type1", "type2", "expected", "actual", "bad_value"} |->
        CASE name = "variable_name" -> WordValue(analysis.variable_name)
          [] name = "exception_type" -> WordValue(analysis.exception_type)
          [] name = "exception_message" -> StrValue(analysis.exception_message)
          [] name = "filename" -> StrValue(analysis.filename)
          [] name = "function_name" -> WordValue(analysis.function_name)
          [] name = "available_variables" -> ListValue(analysis.available_variables)
          [] name = "similar_variables" -> ListValue(analysis.similar_variables)
          [] name = "closest_variable" -> OptionalStr(analysis.closest_variable)
          [] name = "similarity_score" -> NumValue("float", analysis.similarity_score)
          [] name = "looks_like_import" -> BoolValue(analysis.looks_like_import)
          [] name = "builtin_typo_detected" -> BoolValue(analysis.builtin_typo_detected)
          [] name = "correct_builtin" -> OptionalStr(analysis.correct_builtin)
          [] name = "operation" -> StrValue(analysis.operation)
          [] name = "type1" -> OptionalStr(analysis.type1)
          [] name = "type2" -> OptionalStr(analysis.type2)
          [] name = "expected" -> OptionalInt(analysis.expected)
          [] name = "actual" -> OptionalInt(analysis.actual)
          [] name = "bad_value" -> StrValue(analysis.bad_value)
          [] OTHER -> BoolValue(analysis.similar_variables_exist)]

(***************************************************************************)
(* TemplateRenderer.render_explanation (template_renderer.py): whether it   *)
(* raises, the rendered title, suggestions and examples, and the metadata  *)
(* it attaches.  A title is one word of text; a title that is a non-empty  *)
(* non-string YAML value makes re.sub raise TypeError.                     *)
(***************************************************************************)
render_explanation(explanation, analysis) ==
    IF ~explanation.explanation.title_is_str
    THEN [raised |-> TRUE, rendered |-> None]
    ELSE [raised |-> FALSE,
          rendered |-> Some([title |-> render_template(<<explanation.explanation.title>>,
                                                       FactsOf(analysis)),
                             suggestions |->
                                 render_suggestions(explanation.explanation.suggestions,
                                                    FactsOf(analysis)),
                             examples |->
                                 render_examples(explanation.explanation.examples,
                                                 FactsOf(analysis)),
                             metadata |-> [explanation_id |-> explanation.id,
                                           priority |-> explanation.priority,
                                           pack_name |-> None,
                                           pack_version |-> None,
                                           pack_author |-> None]])]

(***************************************************************************)
(* The pack files on disk.                                                 *)
(***************************************************************************)
\* explanation_packs/core in directory order, then ~/.qinter/packages
CorePaths == <<"core/a.yaml", "core/b.yaml">>
UserPaths == <<"user/c.yaml">>
ExtraPath == "extra/x.yaml"
AllPaths == Range(CorePaths) \cup Range(UserPaths) \cup {ExtraPath}

\* list(directory.glob("*.yaml")) + list(directory.glob("*.yml")): the files present
Glob(documents, paths) == SelectSeq(paths, LAMBDA path : documents[path].yaml # "absent")

(***************************************************************************)
(* ExplanationEngine (engine.py).  The engine state is the record          *)
(* [initialized, loaded_packs, validation_errors, loaded_explanations]:    *)
(* its own flag, the loader singleton's two fields, the matcher            *)
(* singleton's list.                                                       *)
(***************************************************************************)
LoaderOf(eng) == [loaded_packs |-> eng.loaded_packs, validation_errors |-> eng.validation_errors]

WithLoader(eng, loader) ==
    [eng EXCEPT !.loaded_packs = loader.loaded_packs,
                !.validation_errors = loader.validation_errors]

\* [eng: the state after the call, raised: an exception left initialize(),
\*  read_files: load_core_packs() ran, given: the packs handed to the matcher]
\* user_dir_ok: whether ~/.qinter/packages exists or can be created; when it
\* cannot, packages_dir.mkdir(parents=True, exist_ok=True) raises OSError
\* initialize() from `all_packs = core_packs + user_packs` on
initialize_matcher(eng, core, user) ==
    [eng |-> [WithLoader(eng, user.loader) EXCEPT
                 !.loaded_explanations = load_explanations(@, core.packs \o user.packs),
                 !.initialized = TRUE],
     raised |-> FALSE, read_files |-> TRUE, given |-> Some(core.packs \o user.packs)]

\* initialize() after load_core_packs() returned
initialize_user(documents, dir_ok, eng, core) ==
    IF core.packs = <<>>
    THEN [eng |-> WithLoader(eng, core.loader),
          raised |-> FALSE, read_files |-> TRUE, given |-> None]
    ELSE IF ~dir_ok
    THEN [eng |-> WithLoader(eng, core.loader),
          raised |-> TRUE, read_files |-> TRUE, given |-> None]
    ELSE initialize_matcher(eng, core,
                            load_files(documents, core.loader, Glob(documents, UserPaths), 1))

initialize(documents, dir_ok, eng) ==
    IF eng.initialized
    THEN [eng |-> eng, raised |-> FALSE, read_files |-> FALSE, given |-> None]
    ELSE initialize_user(documents, dir_ok, eng,
                         load_files(documents, LoaderOf(eng), Glob(documents, CorePaths), 1))

\* the try block of explain(): Optional[rendered]; every Exception inside it
\* is caught and None returned
\* rendered['metadata'].update({...}) on what the renderer returned
with_pack_metadata(r, pack) ==
    IF r.raised
    THEN None
    ELSE Some([r.rendered[1] EXCEPT
                 !.metadata.pack_name = Some(pack.metadata.name),
                 !.metadata.pack_version = Some(pack.metadata.version),
                 !.metadata.pack_author = Some(pack.metadata.author)])

\* the try block after find_best_explanation returned (or raised)
explain_match(match_result) ==
    IF match_result.raised \/ match_result.result = None
    THEN None
    ELSE with_pack_metadata(
             render_explanation(match_result.result[1][1], match_result.result[1][3]),
             match_result.result[1][2])

explain_body(loaded, exception, context) ==
    explain_match(find_best_explanation(loaded, exception, context))

\* [eng, raised, result, read_files, given]
explain_initialized(init, exception, context) ==
    IF init.raised
    THEN [eng |-> init.eng, raised |-> TRUE, result |-> None,
          read_files |-> init.read_files, given |-> init.given]
    ELSE [eng |-> init.eng, raised |-> FALSE,
          result |-> explain_body(init.eng.loaded_explanations, exception, context),
          read_files |-> init.read_files, given |-> init.given]

explain(documents, dir_ok, eng, exception, context) ==
    explain_initialized(
        IF ~eng.initialized
        THEN initialize(documents, dir_ok, eng)
        ELSE [eng |-> eng, raised |-> FALSE, read_files |-> FALSE, given |-> None],
        exception, context)

\* [eng, raised, read_files, given]
reload_packs(documents, dir_ok, eng) ==
    initialize(documents, dir_ok,
               [eng EXCEPT !.initialized = FALSE,
                           !.loaded_packs = <<>>,
                           !.loaded_explanations = <<>>])

\* [eng, result: the bool returned, given]
\* load_additional_pack() after load_pack returned
additional_pack_loaded(eng, one) ==
    IF one.pack # None
    THEN [eng |-> [WithLoader(eng, one.loader) EXCEPT
                      !.loaded_explanations = load_explanations(@, one.loader.loaded_packs)],
          result |-> TRUE, given |-> Some(one.loader.loaded_packs)]
    ELSE [eng |-> WithLoader(eng, one.loader), result |-> FALSE, given |-> None]

load_additional_pack(documents, eng, pack_path) ==
    additional_pack_loaded(eng, load_pack(documents, LoaderOf(eng), pack_path))

(***************************************************************************)
(* The inputs the model draws from: pack files, exceptions, contexts.      *)
(***************************************************************************)
FullMetadata(name) == RawMetadata(MetadataRequired, name, "1.0.0", "qinter")

NotDefined == RegexPattern(<<"' is not defined">>)
NotCallable == RegexPattern(<<"' object is not callable">>)
AnyMessage == RegexPattern(<<>>)

GoodEntry(id, priority, exception_type, message_patterns, context_conditions) ==
    RawEntry(ExplanationRequired, id, priority,
             RawConditions({"exception_type", "message_patterns", "context_conditions"},
                           exception_type, message_patterns, context_conditions),
             RawContent({"title", "description"}, id, TRUE))

\* an entry without a priority
EntryMissingPriority ==
    [GoodEntry("no_priority", 0, "NameError", <<NotDefined>>, <<>>)
        EXCEPT !.fields = ExplanationRequired \ {"priority"}]

\* an entry whose conditions hold no exception_type (KeyError in _parse_conditions)
EntryMissingType ==
    [GoodEntry("no_type", 7, "", <<NotDefined>>, <<>>)
        EXCEPT !.conditions.fields = {"message_patterns"}]

\* an entry whose title is a number instead of a string
EntryNumericTitle ==
    [GoodEntry("numeric_title", 10, "NameError", <<NotDefined>>, <<>>)
        EXCEPT !.explanation.title_is_str = FALSE]

NoFile == RawFile("absent", RawMetadata({}, "", "", ""), <<>>)
BrokenYaml == RawFile("error", RawMetadata({}, "", "", ""), <<>>)

CorePack ==
    RawFile("ok", FullMetadata("python-core"),
            <<GoodEntry("undefined_name", 5, "NameError", <<InvalidPattern, NotDefined>>, <<>>),
              GoodEntry("builtin_typo", 10, "NameError", <<NotDefined>>,
                        <<CondOfType("builtin_typo")>>)>>)

ExtPack ==
    RawFile("ok", FullMetadata("ext"),
            <<GoodEntry("similar_name", 10, "NameError", <<NotDefined>>,
                        <<ContextCondition("variable_similarity", Some(800), None,
                                           None, None, None, None)>>),
              GoodEntry("not_callable", 5, "TypeError", <<NotCallable>>,
                        <<ContextCondition("function_context", None, None,
                                           None, None, None, Some(TRUE)),
                          ContextCondition("file_extension", None, None,
                                           None, None, Some(<< <<".py">> >>), None)>>)>>)

\* one entry fails to parse, the other is valid
PartialPack ==
    RawFile("ok", FullMetadata("partial"),
            <<EntryMissingPriority,
              GoodEntry("any_name_error", 5, "NameError", <<AnyMessage>>, <<>>)>>)

\* declares the name of CorePack
SameNamePack ==
    RawFile("ok", FullMetadata("python-core"),
            <<EntryNumericTitle,
              GoodEntry("other_core", 5, "TypeError", <<AnyMessage>>, <<>>)>>)

MissingLicense ==
    RawFile("ok", RawMetadata(MetadataRequired \ {"license"}, "no-license", "1.0.0", "qinter"),
            <<GoodEntry("unused", 5, "NameError", <<NotDefined>>, <<>>)>>)

ExtraPack ==
    RawFile("ok", FullMetadata("extra"),
            <<GoodEntry("import_hint", 10, "NameError", <<NotDefined>>,
                        <<ContextCondition("import_pattern", None, None,
                                           Some(<<"os", "json">>), None, None, None)>>),
              GoodEntry("typo_again", 10, "NameError", <<NotDefined>>,
                        <<CondOfType("builtin_typo"), CondOfType("custom_check")>>)>>)

CommunityPack ==
    RawFile("ok", FullMetadata("community"),
            <<GoodEntry("community_name", 5, "NameError", <<NotDefined>>, <<>>)>>)

NoValidEntry == RawFile("ok", FullMetadata("hollow"), <<EntryMissingType>>)

\* what each path may hold when the engine is exercised
FileOptions(path) ==
    CASE path = "core/a.yaml" -> {NoFile, CorePack, PartialPack}
      [] path = "core/b.yaml" -> {NoFile, ExtPack}
      [] path = "user/c.yaml" -> {SameNamePack, CommunityPack}
      [] OTHER -> {ExtraPack}

\* what each path may hold when the loader is exercised on damaged packs
DamagedFileOptions(path) ==
    CASE path = "core/a.yaml" -> {NoFile, CorePack}
      [] path = "core/b.yaml" -> {NoFile, BrokenYaml, PartialPack}
      [] path = "user/c.yaml" -> {NoFile, MissingLicense}
      [] OTHER -> {ExtraPack, NoValidEntry, PartialPack}

AllContents ==
    UNION {FileOptions(path) : path \in AllPaths}
    \cup UNION {DamagedFileOptions(path) : path \in AllPaths}

\* the paths handed to load_additional_pack
AdditionalPaths == {ExtraPath, "user/c.yaml"}

PyException(type, message) == [type |-> type, message |-> message]

Frame(function_name) == [function_name |-> function_name]

\* a context as the interceptor captures it inside main()
CapturedContext ==
    [traceback_info |-> <<Frame("<module>"), Frame("main")>>,
     local_variables |-> <<"lst2", "ls", "_tmp", "i">>,
     file_context |-> [is_dict |-> TRUE, fields |-> {"filename"}, filename |-> <<"app", ".py">>]]

\* a context a caller passes with file_context set to None
BrokenContext ==
    [traceback_info |-> <<>>,
     local_variables |-> <<>>,
     file_context |-> [is_dict |-> FALSE, fields |-> {}, filename |-> <<>>]]

\* the (exception, context) pairs the calls are made with
Probes ==
    {<<PyException("NameError", <<"name '", "pirnt", "' is not defined">>), CapturedContext>>,
     <<PyException("NameError", <<"name '", "lst", "' is not defined">>), CapturedContext>>,
     <<PyException("NameError", <<"Name '", "OS", "' Is Not Defined">>), CapturedContext>>,
     <<PyException("TypeError", <<"'", "int", "' object is not callable">>), CapturedContext>>,
     <<PyException("NameError", <<"name '", "pirnt", "' is not defined">>), BrokenContext>>}

\* the pack load_pack builds from a file that holds content
PackOf(content, path) ==
    load_pack([p \in AllPaths |-> content],
              [loaded_packs |-> <<>>, validation_errors |-> <<>>], path).pack[1]

\* pack lists handed to PatternMatcher.load_explanations directly
PackLists ==
    {<<>>,
     <<PackOf(ExtPack, "core/b.yaml"), PackOf(CorePack, "core/a.yaml")>>,
     <<PackOf(PartialPack, "core/a.yaml"), PackOf(ExtraPack, ExtraPath)>>}

(***************************************************************************)
(* Templates, rule content and FactSets handed to the renderer.            *)
(***************************************************************************)
IfElseBlock(condition, if_content, else_content) ==
    <<"{", "if", " ">> \o condition \o <<"}">> \o if_content
        \o <<"{", "else", "}">> \o else_content \o <<"{", "endif", "}">>

IfBlock(condition, content) ==
    <<"{", "if", " ">> \o condition \o <<"}">> \o content \o <<"{", "endif", "}">>

\* '{name}' and '{name:format_spec}'
Token(name) == <<"{">> \o name \o <<"}">>
FormatToken(name, format_spec) == <<"{">> \o name \o <<":", format_spec, "}">>

ConditionTexts ==
    {<<"looks_like_import">>,
     <<"similar_variables">>,
     <<"closest_variable">>,
     <<"similarity_score", " ", ">", " ", "0.5">>,
     <<"always">>,
     <<"nonexistent">>,
     <<" ", "builtin_typo_detected", " ">>}

\* conditions of the form '<fact> > <number>' and near misses of it
ComparisonTexts ==
    {<<"similarity_score", " ", ">", " ", "0.8">>,
     <<"similarity_score", " ", ">", " ", "-1">>,
     <<"similarity_score", " ", ">", " ", "many">>,
     <<"similarity_score", ">", "0.5">>,
     <<"similarity_score", " ", "<", " ", "0.5">>,
     <<"bad_value", " ", ">", " ", "0">>,
     <<"looks_like_import", " ", ">", " ", "0">>,
     <<"similar_variables", " ", ">", " ", "0">>,
     <<"closest_variable", " ", ">", " ", "0">>,
     <<"nonexistent", " ", ">", " ", "0">>,
     <<"nonexistent", " ", ">", " ", "-1">>}

BranchTexts ==
    {<<"Try installing it">>,
     <<"Check spelling">>,
     <<>>,
     <<" ", "indented", "\n">>,
     <<"Did you mean ", "{", "closest_variable", "}", "?">>}

\* templates that hold one conditional block and nothing else
BlockTemplates ==
    {IfElseBlock(c, a, b) : c \in ConditionTexts, a \in BranchTexts,
                            b \in BranchTexts \ {<<>>}}
        \cup {IfBlock(c, a) : c \in ConditionTexts, a \in BranchTexts}

TokenNames == {<<"variable_name">>, <<"similarity_score">>, <<"nonexistent">>,
               <<"closest_variable">>, <<"similar_variables">>, <<"no", " ", "such">>, <<>>}

FormatSpecs == {".0%", ".2f", ".xf", "d", "%"}

TokenPrefixes == {<<>>, <<"Name ">>, <<"}", " ">>, <<"{", "}">>}

TokenSuffixes == {<<>>, <<" ", "is unknown">>, <<"{", "variable_name", "}">>}

\* templates that hold a substitution token
TokenTemplates ==
    {pre \o Token(name) \o post :
        pre \in TokenPrefixes, name \in TokenNames \ {<<>>}, post \in TokenSuffixes}
    \cup {pre \o FormatToken(name, format_spec) \o post :
            pre \in TokenPrefixes, name \in TokenNames, format_spec \in FormatSpecs,
            post \in {<<>>, <<" ", "is unknown">>}}

\* templates without a token, and templates whose braces do not pair up
\* into the tags the renderer knows
PlainTemplates ==
    {<<>>,
     <<"Check spelling">>,
     <<" ", "\n", "Check spelling", " ", "twice", "\n", " ">>,
     <<" ", " ">>,
     <<"{", "}">>,
     <<"}", "text", "{">>,
     <<"a", ":", "b", " ", ">", " ", "1">>,
     <<"{", "if", " ", "looks_like_import", "}", "no end">>,
     <<"{", "if", "}", "text", "{", "endif", "}">>,
     <<"text", "{", "else", "}", "more", "{", "endif", "}">>,
     IfBlock(<<"always">>, <<"X">>) \o <<" ">> \o IfBlock(<<"nonexistent">>, <<"Y">>),
     IfBlock(<<"always">>, <<"X">>) \o IfElseBlock(<<"looks_like_import">>, <<"A">>, <<"B">>),
     IfElseBlock(<<"looks_like_import">>, IfBlock(<<"similar_variables">>, <<"A">>), <<"B">>)}

\* blocks that stand one after the other in a template: with and without
\* `{else}`, on conditions that are true, false and unknown in the FactSets
SequentialBlocks ==
    {IfBlock(c, <<"Try installing it">>) :
        c \in {<<"looks_like_import">>, <<"similar_variables">>, <<"nonexistent">>}}
    \cup {IfElseBlock(c, <<"Did you mean it">>, <<"Check spelling">>) :
            c \in {<<"looks_like_import">>, <<"similar_variables">>, <<"nonexistent">>}}

\* the text between two blocks
Separators == {<<>>, <<" ", "or", " ">>}

SequentialTemplates ==
    {first \o between \o second :
        first \in SequentialBlocks, between \in Separators, second \in SequentialBlocks}

Templates == BlockTemplates \cup TokenTemplates \cup PlainTemplates \cup SequentialTemplates

Suggestions ==
    {ExplanationSuggestion(<<"Check spelling">>, 2, <<"always">>),
     ExplanationSuggestion(<<"Did you mean ", "{", "closest_variable", "}", "?">>, 1,
                           <<"similar_variables_exist">>),
     ExplanationSuggestion(IfBlock(<<"looks_like_import">>, <<"Try installing it">>), 1,
                           <<"always">>),
     ExplanationSuggestion(<<"Use ", "{", "correct_builtin", "}">>, 2,
                           <<"builtin_typo_detected">>),
     ExplanationSuggestion(<<"Define it first">>, 3,
                           <<"similarity_score", " ", ">", " ", "0.5">>),
     ExplanationSuggestion(<<" ">>, 0, <<"always">>)}

Examples ==
    {ExplanationExample("wrong", <<"Wrong">>, <<"{", "variable_name", "}", "(x)">>,
                        <<"always">>),
     ExplanationExample("install", IfBlock(<<"looks_like_import">>, <<"Install it">>),
                        <<"pip install ", "{", "variable_name", "}">>, <<"always">>),
     ExplanationExample("no_code", <<"Right">>, <<" ", "\n">>, <<"always">>),
     ExplanationExample("typo", <<"Typo">>, <<"{", "correct_builtin", "}", "(x)">>,
                        <<"builtin_typo_detected">>),
     ExplanationExample("similar", <<"Near ", "{", "closest_variable", "}">>, <<"x = 1">>,
                        <<"similar_variables">>)}

\* the lists of at most MaxItems different items of a set
MaxItems == 3

ListsOf(items) ==
    {list \in UNION {[1..n -> items] : n \in 0..MaxItems} :
        \A i, j \in DOMAIN list : i # j => list[i] # list[j]}

RulePriorities == {1, 50}

\* rules as load_pack builds them from a pack whose content section holds
\* suggestions and examples
RenderedRules ==
    {[PackOf(CorePack, "core/a.yaml").explanations[1]
        EXCEPT !.priority = priority,
               !.explanation.suggestions = suggestions,
               !.explanation.examples = <<>>] :
        priority \in RulePriorities, suggestions \in ListsOf(Suggestions)}
    \cup
    {[PackOf(CorePack, "core/a.yaml").explanations[1]
        EXCEPT !.priority = priority,
               !.explanation.suggestions = <<>>,
               !.explanation.examples = examples] :
        priority \in RulePriorities, examples \in ListsOf(Examples)}

\* exceptions whose analysis the renderer is handed
RenderProbes ==
    {probe \in Probes : ~analyze(probe[1], probe[2]).raised}
        \cup {<<PyException("NameError", <<"name '", "os", "' is not defined">>),
               CapturedContext>>}

\* FactSets: the analyses of the exceptions above, and dicts a caller of
\* the renderer builds by hand
EmptyFacts == [name \in {} |-> NoneValue]

FactSets ==
    {FactsOf(analyze(probe[1], probe[2]).analysis) : probe \in RenderProbes}
        \cup {FactsOf(analyze(PyException("ValueError",
                                          <<"invalid literal for int() with base ", "10",
                                            ":", " '", "4.2", "'">>),
                              CapturedContext).analysis),
              EmptyFacts,
              [name \in {"always", "similarity_score", "variable_name"} |->
                  CASE name = "always" -> BoolValue(TRUE)
                    [] name = "similarity_score" -> StrValue(<<"0.8">>)
                    [] OTHER -> NumValue("int", 0)]}

(***************************************************************************)
(* ExceptionInterceptor (core/interceptor.py) and the handler the          *)
(* activator gives it (core/activator.py).  A hook is named by the         *)
(* function it is.                                                         *)
(***************************************************************************)
DefaultHook == "sys.__excepthook__"
CustomHook == "ExceptionInterceptor._custom_excepthook"

\* the hooks that can be installed before the interceptor is first activated
InstalledHooks == {DefaultHook, "ide_excepthook"}

\* activator.activate passes lazy_explain_error; interceptor.activate takes
\* any callable, or none
Handlers == {None, Some("lazy_explain_error"), Some("failing_handler")}

\* [original_excepthook, is_active, explanation_handler] after __init__
NewInterceptor ==
    [original_excepthook |-> None, is_active |-> FALSE, explanation_handler |-> None]

\* [sys_excepthook, interceptor]
activate_always(sys_hook, interceptor, explanation_handler) ==
    [sys_excepthook |-> CustomHook,
     interceptor |-> [original_excepthook |-> Some(sys_hook),
                      is_active |-> TRUE,
                      explanation_handler |-> explanation_handler]]

activate(sys_hook, interceptor, explanation_handler) ==
    IF interceptor.is_active
    THEN [sys_excepthook |-> sys_hook, interceptor |-> interceptor]
    ELSE [sys_excepthook |-> CustomHook,
          interceptor |-> [original_excepthook |-> Some(sys_hook),
                           is_active |-> TRUE,
                           explanation_handler |-> explanation_handler]]

deactivate(sys_hook, interceptor) ==
    IF ~interceptor.is_active
    THEN [sys_excepthook |-> sys_hook, interceptor |-> interceptor]
    ELSE [sys_excepthook |-> IF interceptor.original_excepthook # None
                             THEN interceptor.original_excepthook[1]
                             ELSE sys_hook,
          interceptor |-> [interceptor EXCEPT !.is_active = FALSE,
                                              !.explanation_handler = None]]

\* a traceback: none, the one of an error raised inside main(), or the one
\* of an error raised by a statement of the module body
Tracebacks == {None, Some("traceback of main()"), Some("traceback of <module>")}

\* a context as the interceptor captures it for an error raised at module
\* level: traceback.extract_tb names the frame of a module body "<module>"
ModuleContext ==
    [traceback_info |-> <<Frame("<module>")>>,
     local_variables |-> <<"lst1", "lst2", "lst3", "lst4", "lst5", "lst6", "ls",
                           "count", "other", "i", "_tmp">>,
     file_context |-> [is_dict |-> TRUE, fields |-> {"filename"}, filename |-> <<"app", ".py">>]]

\* _capture_context: without a traceback the three collections stay empty
capture_context(exc_traceback) ==
    CASE exc_traceback = None ->
            [traceback_info |-> <<>>,
             local_variables |-> <<>>,
             file_context |-> [is_dict |-> TRUE, fields |-> {}, filename |-> <<>>]]
      [] exc_traceback = Some("traceback of <module>") -> ModuleContext
      [] OTHER -> CapturedContext

\* self._explanation_handler(exc_value, context):
\* [eng, raised, result, read_files, given]
call_handler(explanation_handler, documents, dir_ok, eng, exc_value, context) ==
    IF explanation_handler = Some("lazy_explain_error")
    THEN explain(documents, dir_ok, eng, exc_value, context)
    ELSE [eng |-> eng, raised |-> explanation_handler # None, result |-> None,
          read_files |-> FALSE, given |-> None]

\* the explanation left after the try block: None when the handler raised
explanation_of_handler(handled) == IF handled.raised THEN None ELSE handled.result

\* a hook that shows the explanation and calls the saved hook as well
hook_display_both(interceptor, explanation, exc_type, exc_value, exc_traceback) ==
    [displayed |-> IF explanation # None THEN <<explanation[1]>> ELSE <<>>,
     original_calls |-> <<[hook |-> interceptor.original_excepthook[1],
                           exc_type |-> exc_type,
                           exc_value |-> exc_value,
                           exc_traceback |-> exc_traceback]>>]

\* what the hook shows: the explanations handed to _display_explanation
\* and the calls made to the saved hook
hook_display(interceptor, explanation, exc_type, exc_value, exc_traceback) ==
    IF explanation # None
    THEN [displayed |-> <<explanation[1]>>, original_calls |-> <<>>]
    ELSE IF interceptor.original_excepthook # None
    THEN [displayed |-> <<>>,
          original_calls |-> <<[hook |-> interceptor.original_excepthook[1],
                                exc_type |-> exc_type,
                                exc_value |-> exc_value,
                                exc_traceback |-> exc_traceback]>>]
    ELSE [displayed |-> <<>>, original_calls |-> <<>>]

\* _custom_excepthook once the handler has returned or raised:
\* [eng, raised, result, read_files, given] of the handler, and the display
custom_excepthook_handled(interceptor, handled, exc_type, exc_value, exc_traceback) ==
    [eng |-> handled.eng, raised |-> handled.raised, result |-> handled.result,
     read_files |-> handled.read_files, given |-> handled.given,
     display |-> hook_display(interceptor, explanation_of_handler(handled),
                              exc_type, exc_value, exc_traceback)]

custom_excepthook(interceptor, documents, dir_ok, eng, exc_type, exc_value, exc_traceback) ==
    custom_excepthook_handled(
        interceptor,
        call_handler(interceptor.explanation_handler, documents, dir_ok, eng, exc_value,
                     capture_context(exc_traceback)),
        exc_type, exc_value, exc_traceback)

(***************************************************************************)
(* State.                                                                  *)
(***************************************************************************)
VARIABLES
    files,                \* path -> the document the file holds
    user_dir_ok,          \* ~/.qinter/packages exists or can be created
    initialized,          \* ExplanationEngine._initialized
    loaded_packs,         \* YAMLPackLoader.loaded_packs (insertion-ordered dict)
    validation_errors,    \* YAMLPackLoader._validation_errors
    loaded_explanations,  \* PatternMatcher.loaded_explanations
    last_op,              \* the last call made, its arguments and its outcome
    given_packs,          \* the pack list behind loaded_explanations
    load_attempted,       \* load_core_packs() has run since construction
    empty_load,           \* the engine's last load found no packs, none loaded since
    engine_list,          \* Optional: loaded_explanations as the engine's last load left it
    sources_changed,      \* a pack file changed since the engine's last load
    render_input,         \* what a direct caller of the renderer hands to it
    matcher_input,        \* what a direct caller of the analyzer or the matcher hands to it
    added_packs,          \* packs load_additional_pack() added since the last reload_packs()
    sys_excepthook,       \* sys.excepthook
    original_excepthook,  \* ExceptionInterceptor._original_excepthook
    is_active,            \* ExceptionInterceptor._is_active
    explanation_handler,  \* ExceptionInterceptor._explanation_handler
    first_excepthook,     \* sys.excepthook as it was before the first activate()
    reload_thread         \* a thread inside reload_packs(): where it is, what it holds

hook_vars == <<sys_excepthook, original_excepthook, is_active, explanation_handler,
               first_excepthook>>

\* the state outside the engine, its loader and its matcher
aside_vars == <<render_input, matcher_input, hook_vars, reload_thread>>

Interceptor ==
    [original_excepthook |-> original_excepthook, is_active |-> is_active,
     explanation_handler |-> explanation_handler]

SetInterceptor(r) ==
    /\ sys_excepthook' = r.sys_excepthook
    /\ original_excepthook' = r.interceptor.original_excepthook
    /\ is_active' = r.interceptor.is_active
    /\ explanation_handler' = r.interceptor.explanation_handler
    /\ UNCHANGED first_excepthook

vars == <<files, user_dir_ok, initialized, loaded_packs, validation_errors,
          loaded_explanations, last_op, given_packs, load_attempted, empty_load,
          engine_list, sources_changed, added_packs, aside_vars>>

Engine ==
    [initialized |-> initialized, loaded_packs |-> loaded_packs,
     validation_errors |-> validation_errors, loaded_explanations |-> loaded_explanations]

SetEngine(eng) ==
    /\ initialized' = eng.initialized
    /\ loaded_packs' = eng.loaded_packs
    /\ validation_errors' = eng.validation_errors
    /\ loaded_explanations' = eng.loaded_explanations

\* a call's record: what was called with what, what came back, and what the
\* formulas need of the state it was made in
\*   loaded_before: the matcher's list before a call that loads
\*   previous_load: the list the previous load produced, when this call
\*                  loaded the same packs again (the same list handed to
\*                  the matcher, or the engine's load over unchanged files)
Call(op, probe, path, raised, result, matches, read_files, loaded_before, previous_load) ==
    [op |-> op, probe |-> probe, path |-> path,
     raised |-> raised, result |-> result, matches |-> matches, read_files |-> read_files,
     errors_before |-> Len(validation_errors),
     attempted_before |-> load_attempted,
     empty_before |-> empty_load,
     loaded_before |-> loaded_before,
     previous_load |-> previous_load]

\* no thread is inside reload_packs()
\*   pending: the (rule, pack) pairs load_explanations has yet to append
\*   before, after: the match list when the reload began, and the list the
\*                  reload produces when nothing runs beside it
\*   observed: Optional, what an explain() running beside the reload
\*             evaluated and whether it loaded packs itself
NoReload ==
    [pc |-> "idle", pending |-> <<>>, before |-> <<>>, after |-> <<>>, observed |-> None]

EngineInit(options(_)) ==
    /\ files \in {f \in [AllPaths -> AllContents] : \A path \in AllPaths : f[path] \in options(path)}
    /\ user_dir_ok \in BOOLEAN
    /\ initialized = FALSE
    /\ loaded_packs = <<>>
    /\ validation_errors = <<>>
    /\ loaded_explanations = <<>>
    /\ last_op = [op |-> "construct", probe |-> None, path |-> None,
                  raised |-> FALSE, result |-> None, matches |-> <<>>, read_files |-> FALSE,
                  errors_before |-> 0, attempted_before |-> FALSE, empty_before |-> FALSE,
                  loaded_before |-> <<>>, previous_load |-> None]
    /\ given_packs = <<>>
    /\ load_attempted = FALSE
    /\ empty_load = FALSE
    /\ engine_list = None
    /\ sources_changed = FALSE
    /\ added_packs = {}
    /\ reload_thread = NoReload

\* no direct call of the renderer is under way
NoInput == [kind |-> "none"]

\* the interceptor after __init__, under one of the given installed hooks
InterceptorInit(hooks) ==
    /\ sys_excepthook \in hooks
    /\ first_excepthook = sys_excepthook
    /\ original_excepthook = NewInterceptor.original_excepthook
    /\ is_active = NewInterceptor.is_active
    /\ explanation_handler = NewInterceptor.explanation_handler

InitWith(options(_)) ==
    /\ EngineInit(options)
    /\ render_input = NoInput
    /\ matcher_input = NoInput
    /\ InterceptorInit({DefaultHook})

Init == InitWith(FileOptions)

DamagedInit == InitWith(DamagedFileOptions)

(***************************************************************************)
(* Bookkeeping shared by the actions that may run initialize().            *)
(* r: [eng, raised, read_files, given]; cleared: the call emptied the      *)
(* matcher's list first (reload_packs).                                    *)
(***************************************************************************)
AfterEngineLoad(r, cleared) ==
    /\ SetEngine(r.eng)
    /\ load_attempted' = (load_attempted \/ r.read_files)
    /\ given_packs' = IF r.given # None THEN r.given[1]
                      ELSE IF cleared THEN <<>> ELSE given_packs
    /\ empty_load' = IF r.given # None THEN FALSE
                     ELSE IF r.read_files /\ ~r.raised THEN TRUE
                     ELSE empty_load
    /\ engine_list' = IF r.given # None THEN Some(r.eng.loaded_explanations) ELSE engine_list
    /\ sources_changed' = IF r.given # None THEN FALSE ELSE sources_changed
    /\ added_packs' = IF cleared THEN {} ELSE added_packs
    /\ UNCHANGED <<files, user_dir_ok, render_input, matcher_input, hook_vars>>
    /\ reload_thread' =
          IF reload_thread.pc = "idle"
          THEN reload_thread
          ELSE [reload_thread EXCEPT
                   !.observed = Some([list |-> r.eng.loaded_explanations,
                                      read_files |-> r.read_files])]

PreviousLoad(r) ==
    IF r.given # None /\ ~sources_changed THEN engine_list ELSE None

WithinErrorBound(eng) == Len(eng.validation_errors) <= MaxErrors

(***************************************************************************)
(* Engine facade calls.                                                    *)
(***************************************************************************)
Initialize ==
    \E r \in {initialize(files, user_dir_ok, Engine)} :
        /\ WithinErrorBound(r.eng)
        /\ AfterEngineLoad(r, FALSE)
        /\ last_op' = Call("initialize", None, None, r.raised, None, <<>>, r.read_files,
                           <<>>, PreviousLoad(r))

Explain(exception, context) ==
    \E r \in {explain(files, user_dir_ok, Engine, exception, context)} :
        /\ WithinErrorBound(r.eng)
        /\ AfterEngineLoad(r, FALSE)
        /\ last_op' = Call("explain", Some(<<exception, context>>), None,
                           r.raised, r.result, <<>>, r.read_files, <<>>, PreviousLoad(r))

ReloadPacks ==
    \E r \in {reload_packs(files, user_dir_ok, Engine)} :
        /\ WithinErrorBound(r.eng)
        /\ AfterEngineLoad(r, TRUE)
        /\ last_op' = Call("reload_packs", None, None, r.raised, None, <<>>, r.read_files,
                           loaded_explanations, PreviousLoad(r))

\* the pack the loader holds for a file it has just loaded
PackFromPath(eng, pack_path) ==
    CHOOSE pack \in Range(eng.loaded_packs) : pack.file_path = Some(pack_path)

LoadAdditionalPack(pack_path) ==
    \E r \in {load_additional_pack(files, Engine, pack_path)} :
        /\ WithinErrorBound(r.eng)
        /\ SetEngine(r.eng)
        /\ given_packs' = IF r.given # None THEN r.given[1] ELSE given_packs
        /\ empty_load' = IF r.result THEN FALSE ELSE empty_load
        /\ added_packs' = IF r.result
                          THEN added_packs \cup {PackFromPath(r.eng, pack_path)}
                          ELSE added_packs
        /\ last_op' = Call("load_additional_pack", None, Some(pack_path),
                           FALSE, Some(r.result), <<>>, FALSE, loaded_explanations, None)
        /\ UNCHANGED <<files, user_dir_ok, load_attempted, engine_list, sources_changed, aside_vars>>

(***************************************************************************)
(* Loader and matcher calls made without the facade.                       *)
(***************************************************************************)
ClearValidationErrors ==
    /\ validation_errors # <<>>
    /\ validation_errors' = <<>>
    /\ last_op' = Call("clear_validation_errors", None, None, FALSE, None, <<>>, FALSE,
                       <<>>, None)
    /\ UNCHANGED <<files, user_dir_ok, initialized, loaded_packs,
                   loaded_explanations, given_packs, load_attempted, empty_load,
                   engine_list, sources_changed, added_packs, aside_vars>>

LoadExplanations(packs) ==
    /\ loaded_explanations' = load_explanations(loaded_explanations, packs)
    /\ given_packs' = packs
    /\ last_op' = Call("load_explanations", None, None, FALSE, None, <<>>, FALSE,
                       loaded_explanations,
                       IF packs = given_packs THEN Some(loaded_explanations) ELSE None)
    /\ UNCHANGED <<files, user_dir_ok, initialized, loaded_packs,
                   validation_errors, load_attempted, empty_load,
                   engine_list, sources_changed, added_packs, aside_vars>>

FindBestExplanation(exception, context) ==
    \E r \in {find_best_explanation(loaded_explanations, exception, context)} :
        /\ last_op' = Call("find_best_explanation", Some(<<exception, context>>), None,
                           r.raised, r.result, <<>>, FALSE, <<>>, None)
        /\ UNCHANGED <<files, user_dir_ok, initialized, loaded_packs,
                       validation_errors, loaded_explanations, given_packs, load_attempted,
                       empty_load, engine_list, sources_changed, added_packs, aside_vars>>

FindAllMatchingExplanations(exception, context) ==
    \E r \in {find_all_matching_explanations(loaded_explanations, exception, context)} :
        /\ last_op' = Call("find_all_matching_explanations", Some(<<exception, context>>),
                           None, r.raised, None, r.matches, FALSE, <<>>, None)
        /\ UNCHANGED <<files, user_dir_ok, initialized, loaded_packs,
                       validation_errors, loaded_explanations, given_packs, load_attempted,
                       empty_load, engine_list, sources_changed, added_packs, aside_vars>>

(***************************************************************************)
(* The environment: a pack file is installed, replaced or removed while    *)
(* the process runs.                                                       *)
(***************************************************************************)
WriteFile(path, content) ==
    /\ content # files[path]
    /\ files' = [files EXCEPT ![path] = content]
    /\ sources_changed' = TRUE
    /\ last_op' = Call("write_file", None, Some(path), FALSE, None, <<>>, FALSE, <<>>, None)
    /\ UNCHANGED <<user_dir_ok, initialized, loaded_packs, validation_errors,
                   loaded_explanations, given_packs, load_attempted, empty_load,
                   engine_list, added_packs, aside_vars>>

\* a core pack file appears (the package is repaired or upgraded in place)
CoreFileChanges ==
    /\ files["core/a.yaml"] = NoFile
    /\ WriteFile("core/a.yaml", CorePack)

\* a pack file outside the two directories is edited
ExtraFileChanges ==
    \E content \in DamagedFileOptions(ExtraPath) : WriteFile(ExtraPath, content)

EngineNext ==
    \/ Initialize
    \/ \E probe \in Probes : Explain(probe[1], probe[2])
    \/ ReloadPacks
    \/ \E pack_path \in AdditionalPaths : LoadAdditionalPack(pack_path)
    \/ ClearValidationErrors
    \/ CoreFileChanges

MatcherNext ==
    \/ \E packs \in PackLists : LoadExplanations(packs)
    \/ \E probe \in Probes : FindBestExplanation(probe[1], probe[2])
    \/ \E probe \in Probes : FindAllMatchingExplanations(probe[1], probe[2])

\* the matcher's own calls, and the facade calls that load into it
Next ==
    \/ MatcherNext
    \/ ReloadPacks
    \/ \E pack_path \in AdditionalPaths : LoadAdditionalPack(pack_path)

DamagedNext ==
    \/ Initialize
    \/ ReloadPacks
    \/ \E pack_path \in AdditionalPaths : LoadAdditionalPack(pack_path)
    \/ ClearValidationErrors
    \/ ExtraFileChanges

(***************************************************************************)
(* The renderer called on its own.                                         *)
(***************************************************************************)
program_vars ==
    <<files, user_dir_ok, initialized, loaded_packs, validation_errors,
      loaded_explanations, given_packs, load_attempted, empty_load, engine_list,
      sources_changed, added_packs, aside_vars>>

RenderTemplate ==
    /\ render_input.kind = "template"
    /\ last_op' = Call("render_template", Some(render_input), None, FALSE,
                       Some(render_template(render_input.template, render_input.facts)),
                       <<>>, FALSE, <<>>, None)
    /\ UNCHANGED program_vars

HandleConditionalBlocks ==
    /\ render_input.kind = "template"
    /\ last_op' = Call("handle_conditional_blocks", Some(render_input), None, FALSE,
                       Some(handle_conditional_blocks(render_input.template,
                                                      render_input.facts)),
                       <<>>, FALSE, <<>>, None)
    /\ UNCHANGED program_vars

SubstituteVariables ==
    /\ render_input.kind = "template"
    /\ last_op' = Call("substitute_variables", Some(render_input), None, FALSE,
                       Some(substitute_variables(render_input.template,
                                                 render_input.facts)),
                       <<>>, FALSE, <<>>, None)
    /\ UNCHANGED program_vars

ShouldIncludeItem ==
    /\ render_input.kind = "condition"
    /\ last_op' = Call("should_include_item", Some(render_input), None, FALSE,
                       Some(should_include_item(render_input.condition,
                                                render_input.facts)),
                       <<>>, FALSE, <<>>, None)
    /\ UNCHANGED program_vars

\* TemplateRenderer._evaluate_condition
EvaluateCondition ==
    /\ render_input.kind = "condition"
    /\ last_op' = Call("evaluate_condition", Some(render_input), None, FALSE,
                       Some(evaluate_condition(render_input.condition, render_input.facts)),
                       <<>>, FALSE, <<>>, None)
    /\ UNCHANGED program_vars

RenderExplanation ==
    /\ render_input.kind = "rule"
    /\ \E r \in {render_explanation(render_input.explanation, render_input.analysis)} :
          last_op' = Call("render_explanation", Some(render_input), None, r.raised,
                          r.rendered, <<>>, FALSE, <<>>, None)
    /\ UNCHANGED program_vars

RenderNext ==
    \/ RenderTemplate
    \/ HandleConditionalBlocks
    \/ SubstituteVariables
    \/ ShouldIncludeItem
    \/ EvaluateCondition
    \/ RenderExplanation

\* no pack file matters to a renderer called on its own
NoFiles(path) == {NoFile}

RenderInputs ==
    {[kind |-> "template", template |-> template, facts |-> facts] :
        template \in Templates, facts \in FactSets}
    \cup {[kind |-> "condition", condition |-> condition, facts |-> facts] :
            condition \in ConditionTexts \cup ComparisonTexts, facts \in FactSets}
    \cup {[kind |-> "rule", explanation |-> explanation,
           analysis |-> analyze(probe[1], probe[2]).analysis] :
            explanation \in RenderedRules, probe \in RenderProbes}

RenderInit ==
    /\ EngineInit(NoFiles)
    /\ user_dir_ok
    /\ render_input \in RenderInputs
    /\ matcher_input = NoInput
    /\ InterceptorInit({DefaultHook})

(***************************************************************************)
(* The interceptor: activation, deactivation, and the interpreter handing  *)
(* an uncaught exception to the installed hook.                            *)
(***************************************************************************)
engine_vars ==
    <<files, user_dir_ok, initialized, loaded_packs, validation_errors,
      loaded_explanations, given_packs, load_attempted, empty_load, engine_list,
      sources_changed, added_packs>>

Activate(handler) ==
    /\ SetInterceptor(activate(sys_excepthook, Interceptor, handler))
    /\ UNCHANGED reload_thread
    /\ last_op' = Call("activate", Some(handler), None, FALSE, Some(Interceptor), <<>>,
                       FALSE, <<>>, None)
    /\ UNCHANGED <<engine_vars, render_input, matcher_input>>

Deactivate ==
    /\ SetInterceptor(deactivate(sys_excepthook, Interceptor))
    /\ UNCHANGED reload_thread
    /\ last_op' = Call("deactivate", None, None, FALSE, Some(Interceptor), <<>>, FALSE,
                       <<>>, None)
    /\ UNCHANGED <<engine_vars, render_input, matcher_input>>

\* the interpreter calls sys.excepthook(exc_type, exc_value, exc_traceback)
CustomExcepthook(exc_value, exc_traceback) ==
    /\ sys_excepthook = CustomHook
    /\ \E r \in {custom_excepthook(Interceptor, files, user_dir_ok, Engine,
                                    exc_value.type, exc_value, exc_traceback)} :
          /\ WithinErrorBound(r.eng)
          /\ AfterEngineLoad(r, FALSE)
          /\ last_op' = Call("custom_excepthook", Some(<<exc_value, exc_traceback>>), None,
                             r.raised, Some([returned |-> r.result, display |-> r.display]),
                             <<>>, r.read_files, <<>>, PreviousLoad(r))

HookNext ==
    \/ \E handler \in Handlers : Activate(handler)
    \/ Deactivate
    \/ \E probe \in Probes, exc_traceback \in Tracebacks :
          CustomExcepthook(probe[1], exc_traceback)

(***************************************************************************)
(* reload_packs() on one thread, statement by statement, while another     *)
(* thread calls explain().  Nothing in the engine, the loader or the       *)
(* matcher takes a lock; a statement of the reloading thread is one step.  *)
(***************************************************************************)
ReloadStep(pc) ==
    /\ last_op' = Call("reload_packs:" \o pc, None, None, FALSE, None, <<>>, FALSE,
                       <<>>, None)
    /\ added_packs' = IF pc = "flag_cleared" THEN {} ELSE added_packs
    /\ UNCHANGED <<files, user_dir_ok, render_input, matcher_input, hook_vars,
                   load_attempted, empty_load, engine_list, sources_changed>>

\* self._initialized = False
BeginReload ==
    /\ reload_thread.pc = "idle"
    /\ initialized
    /\ initialized' = FALSE
    /\ reload_thread' =
          [pc |-> "flag_cleared", pending |-> <<>>, before |-> loaded_explanations,
           after |-> reload_packs(files, user_dir_ok, Engine).eng.loaded_explanations,
           observed |-> None]
    /\ ReloadStep("flag_cleared")
    /\ UNCHANGED <<loaded_packs, validation_errors, loaded_explanations, given_packs>>

\* self.loader.loaded_packs.clear()
ClearLoadedPacks ==
    /\ reload_thread.pc = "flag_cleared"
    /\ loaded_packs' = <<>>
    /\ reload_thread' = [reload_thread EXCEPT !.pc = "packs_cleared"]
    /\ ReloadStep("packs_cleared")
    /\ UNCHANGED <<initialized, validation_errors, loaded_explanations, given_packs>>

\* self.matcher.loaded_explanations.clear()
ClearLoadedExplanations ==
    /\ reload_thread.pc = "packs_cleared"
    /\ loaded_explanations' = <<>>
    /\ given_packs' = <<>>
    /\ reload_thread' = [reload_thread EXCEPT !.pc = "explanations_cleared"]
    /\ ReloadStep("explanations_cleared")
    /\ UNCHANGED <<initialized, loaded_packs, validation_errors>>

\* self.initialize() up to the clear() inside load_explanations: it returns
\* at once when another thread has set _initialized meanwhile, and without
\* touching the matcher when no pack loads
LoadPacksForReload ==
    /\ reload_thread.pc = "explanations_cleared"
    /\ \E r \in {initialize(files, user_dir_ok, Engine)} :
          /\ WithinErrorBound(r.eng)
          /\ loaded_packs' = r.eng.loaded_packs
          /\ validation_errors' = r.eng.validation_errors
          /\ loaded_explanations' = IF r.given = None THEN loaded_explanations ELSE <<>>
          /\ given_packs' = IF r.given = None THEN given_packs ELSE r.given[1]
          /\ reload_thread' =
                IF r.given = None
                THEN [reload_thread EXCEPT !.pc = "idle"]
                ELSE [reload_thread EXCEPT !.pc = "appending",
                                           !.pending = PairsOfPacks(r.given[1], 1)]
    /\ ReloadStep("appending")
    /\ UNCHANGED initialized

\* self.loaded_explanations.append((explanation, pack))
AppendExplanation ==
    /\ reload_thread.pc = "appending"
    /\ reload_thread.pending # <<>>
    /\ loaded_explanations' = Append(loaded_explanations, Head(reload_thread.pending))
    /\ reload_thread' = [reload_thread EXCEPT !.pending = Tail(@)]
    /\ ReloadStep("appended")
    /\ UNCHANGED <<initialized, loaded_packs, validation_errors, given_packs>>

\* self.loaded_explanations.sort(key=..., reverse=True)
SortExplanations ==
    /\ reload_thread.pc = "appending"
    /\ reload_thread.pending = <<>>
    /\ loaded_explanations' = SortByPriority(loaded_explanations, Len(loaded_explanations))
    /\ reload_thread' = [reload_thread EXCEPT !.pc = "sorted"]
    /\ ReloadStep("sorted")
    /\ UNCHANGED <<initialized, loaded_packs, validation_errors, given_packs>>

\* self._initialized = True, and reload_packs() returns
FinishReload ==
    /\ reload_thread.pc = "sorted"
    /\ initialized' = TRUE
    /\ reload_thread' = [reload_thread EXCEPT !.pc = "idle"]
    /\ ReloadStep("idle")
    /\ UNCHANGED <<loaded_packs, validation_errors, loaded_explanations, given_packs>>

ConcurrentNext ==
    \/ BeginReload
    \/ ClearLoadedPacks
    \/ ClearLoadedExplanations
    \/ LoadPacksForReload
    \/ AppendExplanation
    \/ SortExplanations
    \/ FinishReload
    \/ \E probe \in Probes : Explain(probe[1], probe[2])

HookInit ==
    /\ EngineInit(FileOptions)
    /\ render_input = NoInput
    /\ matcher_input = NoInput
    /\ InterceptorInit(InstalledHooks)

(***************************************************************************)
(* The analyzer and the matcher's checks called on their own.              *)
(***************************************************************************)
UnsupportedOperands ==
    <<"unsupported operand type(s) for ", "+", ":", " '", "int", "' and '", "str", "'">>
InvalidLiteral ==
    <<"invalid literal for int() with base ", "10", ":", " '", "4.2", "'">>
NotEnoughValues == <<"not enough values to unpack (expected ", "3", ", got ", "2", ")">>
TooManyValues == <<"too many values to unpack (expected ", "2", ")">>

\* exceptions of every kind the analyzer tells apart, and exceptions of
\* another type that carry the same messages (an error wrapped in another)
AnalyzerExceptions ==
    {probe[1] : probe \in Probes}
    \cup {PyException("NameError", <<"name '", "os", "' is not defined">>),
          PyException("TypeError", UnsupportedOperands),
          PyException("TypeError", <<"unsupported operand type(s) for ", " ", "+", " ", ":", "int">>),
          PyException("RuntimeError", <<"failed", ":", " ">> \o UnsupportedOperands),
          PyException("ValueError", UnsupportedOperands),
          PyException("ValueError", InvalidLiteral),
          PyException("ValueError", <<"invalid literal for int() with base ", "10", ":", " '", "'">>),
          PyException("RuntimeError", InvalidLiteral),
          PyException("ValueError", NotEnoughValues),
          PyException("ValueError", TooManyValues),
          PyException("TypeError", NotEnoughValues),
          PyException("RuntimeError", TooManyValues),
          PyException("KeyError", <<"'", "name", "'">>)}

AnalyzerContexts == {capture_context(exc_traceback) : exc_traceback \in Tracebacks}

\* the FactSets analyze returns for them
Analyses ==
    {analyze(exception, context).analysis :
        exception \in AnalyzerExceptions, context \in AnalyzerContexts}

SimilarityConditions ==
    {ContextCondition("variable_similarity", threshold, min_matches, None, None, None, None) :
        threshold \in {None, Some(0), Some(500), Some(800)},
        min_matches \in {None, Some(0), Some(1), Some(2)}}

KindConditions ==
    {ContextCondition("import_pattern", None, None, modules, None, None, None) :
        modules \in {None, Some(<<>>), Some(<<"os", "json">>), Some(<<"sys">>)}}
    \cup {ContextCondition("builtin_typo", None, None, None, functions, None, None) :
            functions \in {None, Some(<<"print">>), Some(<<"len">>)}}
    \cup {ContextCondition("file_extension", None, None, None, None, extensions, None) :
            extensions \in {None, Some(<< <<".txt">>, <<".py">> >>), Some(<< <<".txt">> >>)}}
    \cup {ContextCondition("function_context", None, None, None, None, None, inside_function) :
            inside_function \in {None, Some(TRUE), Some(FALSE)}}
    \cup {CondOfType("custom_check"), CondOfType("type_check")}

\* the condition lists of rules: none, one and two predicates
ConditionLists ==
    {<<>>}
    \cup {<<c>> : c \in KindConditions}
    \cup {<<c, d>> : c, d \in {CondOfType("custom_check"), CondOfType("builtin_typo"),
                               ContextCondition("function_context", None, None, None, None,
                                                None, Some(TRUE)),
                               ContextCondition("variable_similarity", Some(500), None, None,
                                                None, None, None)}}

\* the message pattern lists of rules
PatternLists ==
    {<<>>,
     <<InvalidPattern>>,
     <<NotDefined>>,
     <<NotCallable>>,
     <<AnyMessage>>,
     <<InvalidPattern, NotDefined>>,
     <<NotDefined, InvalidPattern>>,
     <<NotCallable, InvalidPattern, NotDefined>>,
     <<RegexPattern(<<"NAME '">>), NotCallable>>,
     <<RegexPattern(<<"name '", "lst">>)>>,
     <<InvalidPattern, InvalidPattern>>}

\* rules as load_pack builds them, on every pattern list and condition list
MatcherRules ==
    {[PackOf(CorePack, "core/a.yaml").explanations[1]
        EXCEPT !.conditions = ExplanationConditions(exception_type, message_patterns,
                                                    context_conditions)] :
        exception_type \in {"NameError", "TypeError"},
        message_patterns \in {<<>>, <<AnyMessage>>, <<InvalidPattern, NotDefined>>},
        context_conditions \in ConditionLists}

MatcherInputs ==
    {[kind |-> "analyze", exception |-> exception, context |-> context] :
        exception \in AnalyzerExceptions, context \in AnalyzerContexts \cup {BrokenContext}}
    \cup {[kind |-> "condition", condition |-> condition, analysis |-> analysis] :
            condition \in SimilarityConditions \cup KindConditions, analysis \in Analyses}
    \cup {[kind |-> "patterns", patterns |-> patterns, message |-> exception.message] :
            patterns \in PatternLists, exception \in AnalyzerExceptions}
    \cup {[kind |-> "conditions", conditions |-> conditions, analysis |-> analysis] :
            conditions \in ConditionLists, analysis \in Analyses}
    \cup {[kind |-> "rule", explanation |-> explanation, exception |-> probe[1],
           analysis |-> analyze(probe[1], probe[2]).analysis] :
            explanation \in MatcherRules, probe \in RenderProbes}

\* ContextAnalyzer.analyze
Analyze ==
    /\ matcher_input.kind = "analyze"
    /\ \E r \in {analyze(matcher_input.exception, matcher_input.context)} :
          last_op' = Call("analyze", Some(matcher_input), None, r.raised,
                          IF r.raised THEN None ELSE Some(r.analysis),
                          <<>>, FALSE, <<>>, None)
    /\ UNCHANGED program_vars

\* ContextAnalyzer.check_condition
CheckCondition ==
    /\ matcher_input.kind = "condition"
    /\ last_op' = Call("check_condition", Some(matcher_input), None, FALSE,
                       Some(check_condition(matcher_input.condition, matcher_input.analysis)),
                       <<>>, FALSE, <<>>, None)
    /\ UNCHANGED program_vars

\* PatternMatcher._matches_message_patterns
MatchesMessagePatterns ==
    /\ matcher_input.kind = "patterns"
    /\ last_op' = Call("matches_message_patterns", Some(matcher_input), None, FALSE,
                       Some(matches_message_patterns(matcher_input.patterns,
                                                     matcher_input.message, 1)),
                       <<>>, FALSE, <<>>, None)
    /\ UNCHANGED program_vars

\* PatternMatcher._matches_context_conditions
MatchesContextConditions ==
    /\ matcher_input.kind = "conditions"
    /\ last_op' = Call("matches_context_conditions", Some(matcher_input), None, FALSE,
                       Some(matches_context_conditions(matcher_input.conditions,
                                                       matcher_input.analysis, 1)),
                       <<>>, FALSE, <<>>, None)
    /\ UNCHANGED program_vars

\* PatternMatcher._matches_explanation
MatchesExplanation ==
    /\ matcher_input.kind = "rule"
    /\ last_op' = Call("matches_explanation", Some(matcher_input), None, FALSE,
                       Some(matches_explanation(matcher_input.explanation,
                                                matcher_input.exception.type,
                                                matcher_input.exception.message,
                                                matcher_input.analysis)),
                       <<>>, FALSE, <<>>, None)
    /\ UNCHANGED program_vars

AnalyzerNext ==
    \/ Analyze
    \/ CheckCondition
    \/ MatchesMessagePatterns
    \/ MatchesContextConditions
    \/ MatchesExplanation

AnalyzerInit ==
    /\ EngineInit(NoFiles)
    /\ user_dir_ok
    /\ render_input = NoInput
    /\ matcher_input \in MatcherInputs
    /\ InterceptorInit({DefaultHook})

\* the matcher under direct loads and under the facade's loads
Spec == Init /\ [][Next]_vars

\* the engine used through its facade only
EngineSpec == Init /\ [][EngineNext]_vars

\* loads over pack files that hold load-time data errors
DamagedSpec == DamagedInit /\ [][DamagedNext]_vars

\* the renderer on templates, rule content and FactSets of every shape
RenderSpec == RenderInit /\ [][RenderNext]_vars

\* the interceptor switched on and off around uncaught exceptions
HookSpec == HookInit /\ [][HookNext]_vars

\* explain() on one thread while another is inside reload_packs()
ConcurrentSpec == Init /\ [][ConcurrentNext]_vars

\* the analyzer and the matcher's checks on exceptions, contexts and rules
\* of every shape
AnalyzerSpec == AnalyzerInit /\ [][AnalyzerNext]_vars

(***************************************************************************)
(* Vocabulary of the properties.                                           *)
(***************************************************************************)
ProbeException == last_op.probe[1][1]
ProbeContext == last_op.probe[1][2]
ProbeAnalysis == analyze(ProbeException, ProbeContext).analysis

TypeCheck(explanation, exception) ==
    explanation.conditions.exception_type = exception.type

MessageCheck(explanation, exception) ==
    \E k \in 1..Len(explanation.conditions.message_patterns) :
        /\ explanation.conditions.message_patterns[k].kind = "regex"
        /\ Search(explanation.conditions.message_patterns[k].lit, exception.message, TRUE)

ContextCheck(explanation, analysis) ==
    \A k \in 1..Len(explanation.conditions.context_conditions) :
        check_condition(explanation.conditions.context_conditions[k], analysis)

PassesAll(explanation, exception, analysis) ==
    /\ TypeCheck(explanation, exception)
    /\ MessageCheck(explanation, exception)
    /\ ContextCheck(explanation, analysis)

\* how often v occurs in the sequence s
Count(s, v) == Cardinality({i \in 1..Len(s) : s[i] = v})

\* positions (pack, rule) of the rules of a pack list
Positions(packs) ==
    UNION {{<<i, j>> : j \in 1..Len(packs[i].explanations)} : i \in 1..Len(packs)}

RuleAt(packs, pos) == packs[pos[1]].explanations[pos[2]]

\* the match list holds exactly the rules of packs, each with its own pack
HoldsExactly(list, packs) ==
    /\ Len(list) = Cardinality(Positions(packs))
    /\ \A pos \in Positions(packs) :
          Count(list, <<RuleAt(packs, pos), packs[pos[1]]>>)
            = Cardinality({q \in Positions(packs) :
                             /\ RuleAt(packs, q) = RuleAt(packs, pos)
                             /\ packs[q[1]] = packs[pos[1]]})

(***************************************************************************)
(* C1  explain() never lets an exception out: every explain() call returns *)
(* (an explanation or None), whatever went wrong while it ran.             *)
(***************************************************************************)
C1_ExplainNeverRaises ==
    last_op.op = "explain" => ~last_op.raised

(***************************************************************************)
(* C2  find_best returns the passing rule that comes first by descending   *)
(* priority, then by the position of its pack in the list given to the     *)
(* load, then by its position inside the pack; no match exactly when no    *)
(* rule passes.                                                            *)
(***************************************************************************)
\* position a comes before position b in the claimed order
ComesBefore(packs, a, b) ==
    \/ RuleAt(packs, a).priority > RuleAt(packs, b).priority
    \/ /\ RuleAt(packs, a).priority = RuleAt(packs, b).priority
       /\ \/ a[1] < b[1]
          \/ a[1] = b[1] /\ a[2] < b[2]

PassingPositions(packs, exception, analysis) ==
    {pos \in Positions(packs) : PassesAll(RuleAt(packs, pos), exception, analysis)}

C2_BestIsFirstInOrder ==
    (last_op.op = "find_best_explanation" /\ ~last_op.raised) =>
        LET passing == PassingPositions(given_packs, ProbeException, ProbeAnalysis)
        IN  IF passing = {}
            THEN last_op.result = None
            ELSE \E best \in passing :
                    /\ \A other \in passing \ {best} : ComesBefore(given_packs, best, other)
                    /\ last_op.result =
                         Some(<<RuleAt(given_packs, best), given_packs[best[1]], ProbeAnalysis>>)

\* two passing rules of equal priority from different packs, and a
\* passing rule of higher priority placed behind one of lower priority
C2_Witness ==
    /\ last_op.op = "find_best_explanation"
    /\ ~last_op.raised
    /\ last_op.result # None
    /\ LET passing == PassingPositions(given_packs, ProbeException, ProbeAnalysis)
       IN  /\ \E a, b \in passing :
                 /\ a[1] # b[1]
                 /\ RuleAt(given_packs, a).priority = RuleAt(given_packs, b).priority
                 /\ RuleAt(given_packs, a).priority = last_op.result[1][1].priority
           /\ \E a, b \in passing :
                 /\ ComesBefore(given_packs, a, b)
                 /\ \/ a[1] > b[1]
                    \/ a[1] = b[1] /\ a[2] > b[2]

(***************************************************************************)
(* C3  every rule find_best or find_all returns is declared for exactly    *)
(* the runtime exception's type name.                                      *)
(***************************************************************************)
C3_ReturnedTypeMatches ==
    /\ (last_op.op = "find_best_explanation" /\ last_op.result # None) =>
          last_op.result[1][1].conditions.exception_type = ProbeException.type
    /\ last_op.op = "find_all_matching_explanations" =>
          \A k \in 1..Len(last_op.matches) :
              last_op.matches[k][1].conditions.exception_type = ProbeException.type

\* a rule was returned while the list also holds a rule of another type
\* that passes the message and context checks
C3_Witness ==
    /\ last_op.op = "find_all_matching_explanations"
    /\ last_op.matches # <<>>
    /\ \E i \in 1..Len(loaded_explanations) :
          /\ ~TypeCheck(loaded_explanations[i][1], ProbeException)
          /\ MessageCheck(loaded_explanations[i][1], ProbeException)
          /\ ContextCheck(loaded_explanations[i][1], ProbeAnalysis)

C5_EmptyEngineExplainsNothing ==
    (last_op.op = "explain" /\ last_op.empty_before) =>
        /\ ~last_op.raised
        /\ last_op.result = None

(***************************************************************************)
(* C6  once a load has been attempted, no later explain() loads or reads   *)
(* pack files again, whether or not the attempt found packs.               *)
(***************************************************************************)
C6_ExplainLoadsOnce ==
    (last_op.op = "explain" /\ last_op.attempted_before) => ~last_op.read_files

(***************************************************************************)
(* C7  immediately after a matcher load of packs P, or a reload_packs()    *)
(* that returned, the match list holds exactly the rules of P (of the      *)
(* packs the reload found), each paired with its own pack, and nothing of  *)
(* an earlier load.                                                        *)
(***************************************************************************)
\* the packs a reload finds: the valid core packs, then the valid user packs
FoundPacks ==
    LET empty == [loaded_packs |-> <<>>, validation_errors |-> <<>>]
        core == load_files(files, empty, Glob(files, CorePaths), 1).packs
        user == load_files(files, empty, Glob(files, UserPaths), 1).packs
    IN  IF core = <<>> THEN <<>> ELSE core \o user

C7_LoadReplacesWholesale ==
    /\ last_op.op = "load_explanations" => HoldsExactly(loaded_explanations, given_packs)
    /\ (last_op.op = "reload_packs" /\ ~last_op.raised) =>
          HoldsExactly(loaded_explanations, FoundPacks)

\* the list before the load held a pair that the load's packs do not have
C7_Witness ==
    /\ last_op.op \in {"load_explanations", "reload_packs"}
    /\ ~last_op.raised
    /\ loaded_explanations # <<>>
    /\ \E i \in 1..Len(last_op.loaded_before) :
          Count(loaded_explanations, last_op.loaded_before[i]) = 0

(***************************************************************************)
(* C8  find_all returns exactly the rules of the match list that pass the  *)
(* type, message and context checks, in list order; find_best returns the  *)
(* first of them, and no match exactly when there is none.                 *)
(***************************************************************************)
PassingOfList(list, exception, analysis) ==
    LET passing == SelectSeq(list, LAMBDA pair : PassesAll(pair[1], exception, analysis))
    IN  [k \in 1..Len(passing) |-> <<passing[k][1], passing[k][2], analysis>>]

C8_AllPassingBestFirst ==
    /\ (last_op.op = "find_all_matching_explanations" /\ ~last_op.raised) =>
          last_op.matches = PassingOfList(loaded_explanations, ProbeException, ProbeAnalysis)
    /\ (last_op.op = "find_best_explanation" /\ ~last_op.raised) =>
          LET passing == PassingOfList(loaded_explanations, ProbeException, ProbeAnalysis)
          IN  last_op.result = IF passing = <<>> THEN None ELSE Some(passing[1])

\* rules that pass stand between rules that fail, and more than one passes
C8_Witness ==
    /\ last_op.op = "find_best_explanation"
    /\ ~last_op.raised
    /\ LET passing == PassingOfList(loaded_explanations, ProbeException, ProbeAnalysis)
       IN  /\ Len(passing) >= 2
           /\ ~PassesAll(loaded_explanations[1][1], ProbeException, ProbeAnalysis)
           /\ passing[1] # passing[2]

(***************************************************************************)
(* C9  a pack file whose load records a validation error contributes no    *)
(* rules.  Checked per load: for every file the load read, when reading    *)
(* that file alone records an error, load_additional_pack returns False    *)
(* and leaves the match list as it was, and a directory load leaves no     *)
(* rule of that file in the match list.                                    *)
(***************************************************************************)
\* what loading one file on a fresh loader gives
AloneLoad(path) ==
    load_pack(files, [loaded_packs |-> <<>>, validation_errors |-> <<>>], path)

ErrorsOfFile(path) == AloneLoad(path).loader.validation_errors

\* the files the last call handed to load_pack
LoadedPaths ==
    IF last_op.op = "load_additional_pack"
    THEN {last_op.path[1]}
    ELSE IF last_op.op \in {"initialize", "reload_packs"} /\ last_op.read_files /\ ~last_op.raised
    THEN Range(Glob(files, CorePaths))
           \cup (IF FoundPacks # <<>> THEN Range(Glob(files, UserPaths)) ELSE {})
    ELSE {}

\* the file at path has no part in the match list after the last call
Excluded(path) ==
    IF last_op.op = "load_additional_pack"
    THEN /\ last_op.result = Some(FALSE)
         /\ loaded_explanations = last_op.loaded_before
    ELSE \A i \in 1..Len(loaded_explanations) :
            loaded_explanations[i][2].file_path # Some(path)

C9_AnyErrorExcludesPack ==
    \A path \in LoadedPaths : ErrorsOfFile(path) # <<>> => Excluded(path)

(***************************************************************************)
(* C9 as the code has it: an error of the whole file (YAML syntax, file    *)
(* not found, missing required metadata field, no valid rule) excludes     *)
(* the pack; a rule entry that fails to parse is recorded and skipped,     *)
(* and the pack's other rules are loaded.                                  *)
(***************************************************************************)
PackLevelError(errors) == \E k \in 1..Len(errors) : errors[k].kind # "entry"

\* the ids of the entries of the file at path that fail to parse
FailedEntryIds(path) ==
    {files[path].explanations[errs.index + 1].id :
        errs \in {e \in Range(ErrorsOfFile(path)) : e.kind = "entry"}}

C9_PackErrorExcludesEntryErrorSkips ==
    \A path \in LoadedPaths :
        LET alone == AloneLoad(path)
        IN  IF PackLevelError(ErrorsOfFile(path))
            THEN Excluded(path)
            ELSE /\ alone.pack # None
                 /\ last_op.op = "load_additional_pack" => last_op.result = Some(TRUE)
                 /\ \A k \in 1..Len(alone.pack[1].explanations) :
                       Count(loaded_explanations,
                             <<alone.pack[1].explanations[k], alone.pack[1]>>) >= 1
                 /\ \A i \in 1..Len(loaded_explanations) :
                       loaded_explanations[i][2].file_path = Some(path) =>
                           loaded_explanations[i][1].id \notin FailedEntryIds(path)

\* one directory load read a file with a whole-file error and a file with a
\* failed entry, and rules of the latter are in the match list
C9_Witness ==
    /\ last_op.op \in {"initialize", "reload_packs"}
    /\ \E path \in LoadedPaths : PackLevelError(ErrorsOfFile(path))
    /\ \E path \in LoadedPaths :
          /\ ErrorsOfFile(path) # <<>>
          /\ ~PackLevelError(ErrorsOfFile(path))
          /\ \E i \in 1..Len(loaded_explanations) :
                loaded_explanations[i][2].file_path = Some(path)

(***************************************************************************)
(* C10  the packs with rules in the match list have pairwise distinct      *)
(* metadata.name.                                                          *)
(***************************************************************************)
C10_ActivePackNamesUnique ==
    \A i, j \in 1..Len(loaded_explanations) :
        loaded_explanations[i][2].metadata.name = loaded_explanations[j][2].metadata.name
            => loaded_explanations[i][2] = loaded_explanations[j][2]

(***************************************************************************)
(* Calls of the renderer: what the last call was handed.                   *)
(***************************************************************************)
RenderedRule == last_op.probe[1].explanation
RenderedFacts == FactsOf(last_op.probe[1].analysis)
RenderedSuggestions == RenderedRule.explanation.suggestions

\* the catalog positions of the suggestions whose condition holds and
\* whose text renders non-empty
KeptSuggestions ==
    {i \in DOMAIN RenderedSuggestions :
        /\ should_include_item(RenderedSuggestions[i].condition, RenderedFacts)
        /\ render_template(RenderedSuggestions[i].template, RenderedFacts) # <<>>}

\* suggestion j is shown before suggestion i
ShownBefore(j, i) ==
    \/ RenderedSuggestions[j].priority < RenderedSuggestions[i].priority
    \/ /\ RenderedSuggestions[j].priority = RenderedSuggestions[i].priority
       /\ j < i

\* C11: the suggestions of a rendered rule are exactly the suggestions
\* whose condition holds and whose text renders non-empty, in ascending
\* order of their own priority, ties in catalog order, whatever the
\* priority of the rule
C11_SuggestionsByOwnPriority ==
    (last_op.op = "render_explanation" /\ ~last_op.raised) =>
        /\ Len(last_op.result[1].suggestions) = Cardinality(KeptSuggestions)
        /\ \A i \in KeptSuggestions :
              last_op.result[1].suggestions[
                  1 + Cardinality({j \in KeptSuggestions : ShownBefore(j, i)})]
                = render_template(RenderedSuggestions[i].template, RenderedFacts)

\* a high-priority rule whose suggestions are shown in another order than
\* the catalog's, one of them left out
C11_Witness ==
    /\ last_op.op = "render_explanation"
    /\ ~last_op.raised
    /\ RenderedRule.priority = 50
    /\ KeptSuggestions # DOMAIN RenderedSuggestions
    /\ \E i, j \in KeptSuggestions :
          /\ i < j
          /\ RenderedSuggestions[j].priority < RenderedSuggestions[i].priority
          /\ render_template(RenderedSuggestions[i].template, RenderedFacts)
               # render_template(RenderedSuggestions[j].template, RenderedFacts)

\* the template and the FactSet of the last direct call
RenderedTemplate == last_op.probe[1].template
TemplateFacts == last_op.probe[1].facts

\* the branch a condition text chooses
ChosenBranch(condition, if_content, else_content) ==
    IF evaluate_condition(Strip(condition), TemplateFacts)
    THEN if_content
    ELSE else_content

\* C12: a template that is one conditional block renders its chosen
\* branch: '{if c}A{else}B{endif}' gives A when c evaluates true and B
\* otherwise, '{if c}A{endif}' gives A when c evaluates true and the empty
\* string otherwise; _render_template then substitutes and trims the branch
C12_BlockRendersChosenBranch ==
    /\ last_op.op = "handle_conditional_blocks" =>
          /\ \A c \in ConditionTexts, a, b \in BranchTexts :
                RenderedTemplate = IfElseBlock(c, a, b)
                    => last_op.result = Some(ChosenBranch(c, a, b))
          /\ \A c \in ConditionTexts, a \in BranchTexts :
                RenderedTemplate = IfBlock(c, a)
                    => last_op.result = Some(ChosenBranch(c, a, <<>>))
    /\ last_op.op = "render_template" =>
          /\ \A c \in ConditionTexts, a, b \in BranchTexts :
                RenderedTemplate = IfElseBlock(c, a, b)
                    => last_op.result
                         = Some(Strip(substitute_variables(ChosenBranch(c, a, b),
                                                           TemplateFacts)))
          /\ \A c \in ConditionTexts, a \in BranchTexts :
                RenderedTemplate = IfBlock(c, a)
                    => last_op.result
                         = Some(Strip(substitute_variables(ChosenBranch(c, a, <<>>),
                                                           TemplateFacts)))

\* the scenario of the specification: looks_like_import is false and the
\* block renders its else branch
C12_Witness ==
    /\ last_op.op = "render_template"
    /\ RenderedTemplate = IfElseBlock(<<"looks_like_import">>, <<"Try installing it">>,
                                      <<"Check spelling">>)
    /\ "looks_like_import" \in DOMAIN TemplateFacts
    /\ ~TemplateFacts["looks_like_import"].bool
    /\ last_op.result = Some(<<"Check spelling">>)

\* a substitution token starts at index i of the template
TokenStartsAt(i) ==
    /\ i + 2 <= Len(RenderedTemplate)
    /\ RenderedTemplate[i] = "{"
    /\ RenderedTemplate[i + 1] # "}"
    /\ \E k \in (i + 2)..Len(RenderedTemplate) : RenderedTemplate[k] = "}"

\* the name of the token that starts at i: the text up to the first ":" or "}"
TokenNameAt(i) ==
    SubSeq(RenderedTemplate, i + 1,
           (CHOOSE k \in (i + 1)..Len(RenderedTemplate) :
               /\ RenderedTemplate[k] \in {":", "}"}
               /\ \A m \in (i + 1)..(k - 1) : RenderedTemplate[m] \notin {":", "}"}) - 1)

NameIsMissing(name) == ~(Len(name) = 1 /\ name[1] \in DOMAIN TemplateFacts)

\* the text a substitution starts with when the first token of the
\* template, at index i, names a missing fact
UpToPlaceholder(i) ==
    SubSeq(RenderedTemplate, 1, i - 1)
        \o <<"{", "unknown_variable_">> \o TokenNameAt(i) \o <<"}">>

C14_AlwaysIsTrue ==
    /\ (last_op.op = "should_include_item" /\ last_op.probe[1].condition = <<"always">>)
          => last_op.result = Some(TRUE)
    /\ last_op.op = "handle_conditional_blocks" =>
          \A a \in BranchTexts :
              RenderedTemplate = IfBlock(<<"always">>, a) => last_op.result = Some(a)

RenderedExamples == RenderedRule.explanation.examples

\* the catalog positions of the examples whose condition holds and whose
\* description and code both render non-empty
KeptExamples ==
    {i \in DOMAIN RenderedExamples :
        /\ should_include_item(RenderedExamples[i].condition, RenderedFacts)
        /\ render_template(RenderedExamples[i].description, RenderedFacts) # <<>>
        /\ render_template(RenderedExamples[i].code, RenderedFacts) # <<>>}

\* C15: the examples of a rendered rule are exactly the examples whose
\* condition holds and whose description and code both render non-empty,
\* in catalog order, each with its own id
C15_ExamplesInCatalogOrder ==
    (last_op.op = "render_explanation" /\ ~last_op.raised) =>
        /\ Len(last_op.result[1].examples) = Cardinality(KeptExamples)
        /\ \A i \in KeptExamples :
              last_op.result[1].examples[1 + Cardinality({j \in KeptExamples : j < i})]
                = [description |-> render_template(RenderedExamples[i].description,
                                                   RenderedFacts),
                   code |-> render_template(RenderedExamples[i].code, RenderedFacts),
                   id |-> RenderedExamples[i].id]

\* two examples are kept around one whose code renders empty
C15_Witness ==
    /\ last_op.op = "render_explanation"
    /\ ~last_op.raised
    /\ Len(RenderedExamples) = 3
    /\ KeptExamples = {1, 3}
    /\ should_include_item(RenderedExamples[2].condition, RenderedFacts)
    /\ render_template(RenderedExamples[2].description, RenderedFacts) # <<>>
    /\ Len(last_op.result[1].examples) = 2
    /\ last_op.result[1].examples[2].id = RenderedExamples[3].id

\* C16: a template that holds no '{...}' token renders, for every FactSet,
\* to the same text with only its leading and trailing whitespace removed
C16_TokenFreeTemplateRoundTrip ==
    (/\ last_op.op = "render_template"
     /\ \A i \in 1..Len(RenderedTemplate) : ~TokenStartsAt(i))
        => last_op.result = Some(Strip(RenderedTemplate))

\* a token-free template with whitespace around and inside it
C16_Witness ==
    /\ last_op.op = "render_template"
    /\ RenderedTemplate = <<" ", "\n", "Check spelling", " ", "twice", "\n", " ">>
    /\ last_op.result = Some(<<"Check spelling", " ", "twice">>)
    /\ DOMAIN TemplateFacts # {}

(***************************************************************************)
(* The hook: what the last delivery of an exception showed.                *)
(***************************************************************************)
HookDisplayed == last_op.result[1].display.displayed
HookOriginalCalls == last_op.result[1].display.original_calls
HandlerReturned == last_op.result[1].returned
HandlerRaised == last_op.raised

\* C18: for every exception handed to the installed hook exactly one
\* display happens: an explanation the handler returned is displayed and
\* the saved hook is not called; when the handler returned nothing or
\* raised, the hook saved at activation is called exactly once with the
\* same exception type, value and traceback
C18_ExactlyOneDisplay ==
    last_op.op = "custom_excepthook" =>
        /\ Len(HookDisplayed) + Len(HookOriginalCalls) = 1
        /\ (~HandlerRaised /\ HandlerReturned # None) =>
              /\ HookDisplayed = <<HandlerReturned[1]>>
              /\ HookOriginalCalls = <<>>
        /\ (HandlerRaised \/ HandlerReturned = None) =>
              /\ HookDisplayed = <<>>
              /\ original_excepthook # None
              /\ HookOriginalCalls = <<[hook |-> original_excepthook[1],
                                        exc_type |-> last_op.probe[1][1].type,
                                        exc_value |-> last_op.probe[1][1],
                                        exc_traceback |-> last_op.probe[1][2]]>>

\* the engine's lazy load raised inside the handler and the hook an IDE
\* had installed was called
C18_Witness ==
    /\ last_op.op = "custom_excepthook"
    /\ explanation_handler = Some("lazy_explain_error")
    /\ HandlerRaised
    /\ Len(HookOriginalCalls) = 1
    /\ HookOriginalCalls[1].hook = "ide_excepthook"
    /\ HookOriginalCalls[1].exc_traceback # None

\* the interceptor as the last activate() or deactivate() found it
InterceptorBefore == last_op.result[1]

\* C19: after any sequence of activate() and deactivate() calls, with
\* nothing else replacing the hook: is_active holds exactly when the
\* interceptor's hook is the installed excepthook; an activate() while
\* active changes nothing, so the saved original hook is never the
\* interceptor's own; and while the interceptor is inactive the installed
\* hook is the one in place before the first activate()
C19_ActivationInvariants ==
    /\ is_active <=> (sys_excepthook = CustomHook)
    /\ original_excepthook # Some(CustomHook)
    /\ (last_op.op = "activate" /\ InterceptorBefore.is_active)
          => Interceptor = InterceptorBefore
    /\ ~is_active => sys_excepthook = first_excepthook

\* a second activate(), with another handler, found the interceptor active
\* over the hook of an IDE
C19_Witness ==
    /\ last_op.op = "activate"
    /\ InterceptorBefore.is_active
    /\ last_op.probe[1] # explanation_handler
    /\ first_excepthook = "ide_excepthook"
    /\ original_excepthook = Some("ide_excepthook")
    /\ sys_excepthook = CustomHook

\* C20: in every state reachable by initialize, explain, reload_packs and
\* load_additional_pack calls, the match list is in non-increasing order
\* of rule priority
C20_MatchListSortedByPriority ==
    \A i, j \in DOMAIN loaded_explanations :
        i < j => loaded_explanations[i][1].priority >= loaded_explanations[j][1].priority

\* a facade load left rules of different priorities in the list, a pack with
\* a lower-priority rule loaded before a pack with a higher one
C20_Witness ==
    /\ last_op.op \in {"initialize", "explain", "reload_packs", "load_additional_pack"}
    /\ \E i, j \in DOMAIN loaded_explanations :
          loaded_explanations[i][1].priority > loaded_explanations[j][1].priority
    /\ \E i, j \in DOMAIN loaded_explanations :
          /\ loaded_explanations[i][1].priority > loaded_explanations[j][1].priority
          /\ \E k, m \in DOMAIN given_packs :
                /\ k < m
                /\ loaded_explanations[j][2] = given_packs[k]
                /\ loaded_explanations[i][2] = given_packs[m]

\* C17: an explain() that runs while another thread is inside
\* reload_packs() evaluates the complete match list from before the reload
\* or the complete list after it, never an empty, partly filled or unsorted
\* one, and loads no packs itself
C17_ReloadSwapsAtomically ==
    reload_thread.observed # None =>
        /\ ~reload_thread.observed[1].read_files
        /\ reload_thread.observed[1].list \in {reload_thread.before, reload_thread.after}

(***************************************************************************)
(* C21  Sequential, non-nested conditional blocks are replaced one by one: *)
(* within a template made of two blocks and the text between them, each    *)
(* block gives its own chosen branch, the text between them is kept, and   *)
(* no '{if ...}', '{else}' or '{endif}' marker is left in the output.      *)
(***************************************************************************)
\* a conditional marker starts at index i of a text
MarkerAt(text, i) ==
    /\ i + 1 <= Len(text)
    /\ text[i] = "{"
    /\ text[i + 1] \in {"if", "else", "endif"}

C21_SequentialBlocksIndependent ==
    last_op.op = "handle_conditional_blocks" =>
        \A first, second \in SequentialBlocks, between \in Separators :
            RenderedTemplate = first \o between \o second =>
                /\ last_op.result
                     = Some(handle_conditional_blocks(first, TemplateFacts)
                            \o between
                            \o handle_conditional_blocks(second, TemplateFacts))
                /\ \A i \in 1..Len(last_op.result[1]) : ~MarkerAt(last_op.result[1], i)

\* the condition and the FactSet of the last direct call of the analyzer
CheckedCondition == last_op.probe[1].condition
CheckedAnalysis == last_op.probe[1].analysis

\* a field of a predicate: the rule's value when it supplies one, the
\* default otherwise
Supplied(opt, default) == IF opt = None THEN default ELSE opt[1]

\* C22: a variable_similarity predicate is satisfied exactly when
\* similarity_score >= threshold and len(similar_variables) >= min_matches,
\* for every threshold and min_matches the rule supplies, 0 included; the
\* defaults 0.6 and 1 stand in only for a field the rule does not supply
C22_SimilarityUsesSuppliedValues ==
    (last_op.op = "check_condition" /\ CheckedCondition.type = "variable_similarity") =>
        last_op.result
          = Some(/\ CheckedAnalysis.similarity_score
                      >= Supplied(CheckedCondition.threshold, DefaultThreshold)
                 /\ Len(CheckedAnalysis.similar_variables)
                      >= Supplied(CheckedCondition.min_matches, DefaultMinMatches))

\* the FactSets of exceptions whose captured traceback ends in the frame
\* the given traceback ends in
AnalysesOf(exc_traceback) ==
    {analyze(exception, capture_context(exc_traceback)).analysis :
        exception \in AnalyzerExceptions}

\* C23: for an exception raised at module level (the deepest frame the
\* interceptor captured is the module body) a function_context predicate
\* with inside_function=false is satisfied and one with inside_function=true
\* is not; for an exception raised inside a function it is the other way
\* round
C23_ModuleLevelIsNotInsideFunction ==
    (/\ last_op.op = "check_condition"
     /\ CheckedCondition.type = "function_context"
     /\ CheckedCondition.inside_function # None) =>
        /\ CheckedAnalysis \in AnalysesOf(Some("traceback of <module>"))
             => last_op.result = Some(CheckedCondition.inside_function = Some(FALSE))
        /\ CheckedAnalysis \in AnalysesOf(Some("traceback of main()"))
             => last_op.result = Some(CheckedCondition.inside_function = Some(TRUE))

\* one of the patterns compiles and is found in the message, whatever the
\* case of either
PatternFound(patterns, message) ==
    \E k \in 1..Len(patterns) :
        /\ patterns[k].kind = "regex"
        /\ Search(patterns[k].lit, message, TRUE)

KnownKinds ==
    {"variable_similarity", "import_pattern", "builtin_typo", "file_extension",
     "function_context"}

\* a predicate is satisfied by a FactSet: by check_condition's verdict when
\* its kind is known, always when it is not
Satisfied(condition, analysis) ==
    condition.type \notin KnownKinds \/ check_condition(condition, analysis)

AllSatisfied(conditions, analysis) ==
    \A k \in 1..Len(conditions) : Satisfied(conditions[k], analysis)

\* C25: a rule passes the context check exactly when every one of its
\* context predicates is satisfied by the FactSet; an empty or absent
\* predicate list passes, and a predicate of a kind the analyzer does not
\* know counts as satisfied
C25_ContextCheckAllPredicates ==
    /\ last_op.op = "matches_context_conditions" =>
          /\ last_op.result
               = Some(AllSatisfied(last_op.probe[1].conditions, last_op.probe[1].analysis))
          /\ last_op.probe[1].conditions = <<>> => last_op.result = Some(TRUE)
    /\ (last_op.op = "check_condition"
          /\ last_op.probe[1].condition.type \notin KnownKinds) =>
          last_op.result = Some(TRUE)
    /\ last_op.op = "matches_explanation" =>
          (last_op.result = Some(TRUE) =>
              AllSatisfied(last_op.probe[1].explanation.conditions.context_conditions,
                           last_op.probe[1].analysis))

\* a list of an unknown-kind predicate followed by a satisfied known one
\* passes
C25_Witness ==
    /\ last_op.op = "matches_context_conditions"
    /\ Len(last_op.probe[1].conditions) = 2
    /\ last_op.probe[1].conditions[1].type = "custom_check"
    /\ last_op.probe[1].conditions[2].type = "function_context"
    /\ last_op.result = Some(TRUE)

\* the value of a fact counts as a number: an int or a float, not a bool
IsNumeric(value) == value.type \in {"int", "float"}

\* the reference truth of a bare fact name
Truthy(value) ==
    CASE value.type = "bool" -> value.bool
      [] value.type \in {"str", "list"} -> value.len > 0
      [] IsNumeric(value) -> value.num > 0
      [] OTHER -> FALSE

\* the reference truth of '<fact> > <number>', the operator found at index k
GreaterThan(condition, facts, k) ==
    LET name == Strip(SubSeq(condition, 1, k - 1))
        number == FloatOfText(SubSeq(condition, k + 3, Len(condition)))
    IN  /\ Len(name) = 1
        /\ name[1] \in DOMAIN facts
        /\ ~number.raised
        /\ IsNumeric(facts[name[1]])
        /\ facts[name[1]].num > number.num

ReferenceTruth(condition, facts) ==
    IF Len(condition) = 1 /\ condition[1] \in DOMAIN facts
    THEN Truthy(facts[condition[1]])
    ELSE IF \E k \in 1..Len(condition) : OccursAt(<<" ", ">", " ">>, condition, k, FALSE)
    THEN GreaterThan(condition, facts,
                     CHOOSE k \in 1..Len(condition) :
                        /\ OccursAt(<<" ", ">", " ">>, condition, k, FALSE)
                        /\ \A m \in 1..(k - 1) :
                              ~OccursAt(<<" ", ">", " ">>, condition, m, FALSE))
    ELSE FALSE

\* C26: condition evaluation never raises and agrees with the reference: a
\* bare name of a present fact is true iff the fact is boolean true, a
\* non-empty string or list, or a number above 0; '<fact> > <number>' is
\* true iff the fact's value is a number greater than the given one; every
\* other expression is false
C26_ConditionEvaluationMatchesReference ==
    last_op.op = "evaluate_condition" =>
        /\ ~last_op.raised
        /\ last_op.result
             = Some(ReferenceTruth(last_op.probe[1].condition, last_op.probe[1].facts))

\* the exception analyze was called on and the FactSet it returned
AnalyzedException == last_op.probe[1].exception
AnalyzedFacts == last_op.result[1]

\* C27: the type and value facts are filled in only for the matching kind
\* of exception: the unsupported operator and the operand types leave their
\* defaults only for a TypeError, the bad value and the expected and actual
\* counts only for a ValueError; for any other exception they keep their
\* defaults whatever the message says
C27_TypeValueFactsOnlyForMatchingKind ==
    (last_op.op = "analyze" /\ ~last_op.raised) =>
        /\ AnalyzedException.type # "TypeError" =>
              /\ AnalyzedFacts.operation = <<"operation">>
              /\ AnalyzedFacts.type1 = None
              /\ AnalyzedFacts.type2 = None
        /\ AnalyzedException.type # "ValueError" =>
              /\ AnalyzedFacts.bad_value = <<"value">>
              /\ AnalyzedFacts.expected = None
              /\ AnalyzedFacts.actual = None

\* C28: every FactSet analyze returns is consistent: similar_variables has
\* at most 5 entries, all of them available variables; closest_variable is
\* its first entry and is null exactly when it is empty;
\* similar_variables_exist is true exactly when it is non-empty; and
\* similarity_score is 0 when it is empty and above 0 otherwise
C28_FactSetConsistent ==
    (last_op.op = "analyze" /\ ~last_op.raised) =>
        /\ Len(AnalyzedFacts.similar_variables) <= 5
        /\ Range(AnalyzedFacts.similar_variables)
              \subseteq Range(AnalyzedFacts.available_variables)
        /\ IF AnalyzedFacts.similar_variables = <<>>
           THEN /\ AnalyzedFacts.closest_variable = None
                /\ ~AnalyzedFacts.similar_variables_exist
                /\ AnalyzedFacts.similarity_score = 0
           ELSE /\ AnalyzedFacts.closest_variable
                     = Some(AnalyzedFacts.similar_variables[1])
                /\ AnalyzedFacts.similar_variables_exist
                /\ AnalyzedFacts.similarity_score > 0

\* a name with six close candidates among the locals: five are kept, the
\* closest first
C28_Witness ==
    /\ last_op.op = "analyze"
    /\ ~last_op.raised
    /\ Len(AnalyzedFacts.similar_variables) = 5
    /\ Cardinality({c \in Range(AnalyzedFacts.available_variables) :
                       Ratio(AnalyzedFacts.variable_name, c) >= CloseMatchesCutoff}) > 5
    /\ AnalyzedFacts.closest_variable = Some(AnalyzedFacts.similar_variables[1])

\* every rule of the pack is in the matcher's list, paired with the pack
RulesActive(pack) ==
    \A k \in 1..Len(pack.explanations) :
        <<pack.explanations[k], pack>> \in Range(loaded_explanations)

\* C29: once load_additional_pack(path) has returned True, the rules of that
\* pack take part in every explain() that follows, until reload_packs() is
\* called, whether the engine was initialized when the pack was added or not
C29_AddedPackStaysActive ==
    (last_op.op = "explain" /\ ~last_op.raised) =>
        \A pack \in added_packs : RulesActive(pack)

\* the valid packs installed in the user packages directory
ValidUserPacks ==
    Range(load_files(files, [loaded_packs |-> <<>>, validation_errors |-> <<>>],
                     Glob(files, UserPaths), 1).packs)

\* C30: a load fails for want of packs only when neither the core directory
\* nor the user packages directory yields a valid pack: after an
\* initialize() that loaded, or a reload_packs(), the rules of every valid
\* user-installed pack are in the match list, whether or not a core pack
\* was found
C30_UserPacksActiveWithoutCore ==
    (/\ last_op.op \in {"initialize", "reload_packs"}
     /\ last_op.read_files
     /\ ~last_op.raised) =>
        \A pack \in ValidUserPacks : RulesActive(pack)

====
